---------------------------- MODULE Spec2Model ----------------------------
(***************************************************************************)
(* A model of esal: the generalized binary search of sorted_search.py,    *)
(* the interval algebra of interval.py and the event sequences of          *)
(* event.py.                                                               *)
(*                                                                         *)
(* Python's None is modelled as the empty sequence <<>> and a present      *)
(* value v as the one-element sequence <<v>>.  Python indices are 0-based; *)
(* the model keeps them 0-based and reads items[i] as items[i + 1].        *)
(***************************************************************************)
EXTENDS Integers, Sequences, FiniteSets, TLC

VARIABLES call, frame, pc, pass, first, result,
          ivl_op, ivl_args, ivl_out,
          ev_in, es, ev_op, ev_args, ev_out, dicts

vars == <<call, frame, pc, pass, first, result, ivl_op, ivl_args, ivl_out,
          ev_in, es, ev_op, ev_args, ev_out, dicts>>

search_vars == <<call, frame, pc, pass, first, result>>

interval_vars == <<ivl_op, ivl_args, ivl_out>>

event_vars == <<ev_in, es, ev_op, ev_args, ev_out, dicts>>

(***************************************************************************)
(* Bounds of the model.                                                    *)
(***************************************************************************)
\* longest array searched
MaxLen == 3

\* keys of the array items are 1..MaxKey; targets range over 0..MaxKey+1
MaxKey == 3

\* interval bounds are the points 0..MaxPoint
MaxPoint == 2

\* most intervals handed to one union call (self and the others)
MaxOperands == 3

\* the most events handed to an EventSequence
MaxEvents == 2

\* the whens of events are 0..MaxWhen, or intervals with bounds in it
MaxWhen == 1

\* the event types are 1..MaxType
MaxType == 2

\* the event values are 0..MaxValue
MaxValue == 1

\* the most types handed to EventSequence.before
MaxChain == 3

\* the most events folded by an aggregator
MaxFold == 3

\* min_len and max_gap of a union aggregator are 0..MaxGap
MaxGap == 1

None == <<>>

Some(v) == <<v>>

IsNone(o) == o = <<>>

\* a local variable: f maps the one value of the variable, which is
\* computed once, to the value of the expression that reads it
Let(f) == f[CHOOSE x \in DOMAIN f : TRUE]

Val(o) == o[1]

Option(S) == {None} \cup {Some(v) : v \in S}

Keys == 1..MaxKey

TargetKeys == 0..(MaxKey + 1)

Bounds == (-1)..(MaxLen + 1)

Arrays == UNION {[1..n -> Keys] : n \in 0..MaxLen}

Min(a, b) == IF a < b THEN a ELSE b

Max(a, b) == IF a > b THEN a ELSE b

(***************************************************************************)
(* general.cmp: the three-way comparison.                                  *)
(***************************************************************************)
cmp(obj1, obj2) ==
    IF obj1 < obj2 THEN -1
    ELSE IF obj1 > obj2 THEN 1
    ELSE 0

(***************************************************************************)
(* sorted_search.Target                                                    *)
(***************************************************************************)
Target == {"any", "lo", "hi", "range"}

(***************************************************************************)
(* _binary_search, lines 63-75: the locals on entry to the loop.  hit       *)
(* records that the loop was left by the return of line 112.               *)
(***************************************************************************)
BsEnter(items, lo_key, hi_key, lo, hi, target) ==
    LET lo0 == IF IsNone(lo) THEN 0 ELSE Max(Val(lo), 0)
        hi0 == IF IsNone(hi) THEN Len(items) ELSE Min(Val(hi), Len(items))
    IN  [ lo_key    |-> lo_key,
          hi_key    |-> hi_key,
          target    |-> target,
          lo        |-> lo0,
          hi        |-> hi0,
          mid       |-> hi0 + 1,
          direction |-> 1,
          lo_dir    |-> -1,
          hi_dir    |-> 1,
          hi_le     |-> lo0,
          hi_gt     |-> hi0,
          hit       |-> FALSE ]

\* BsGoLeft with the hint test off by one: an item equal to hi_key also
\* lowers hi_gt.
BsGoLeftHintLe(f, mid, item_key, direction) ==
    LET hi1 == IF mid < f.hi THEN mid ELSE f.hi - 1
        dir_hi_key == IF Val(f.hi_key) # f.lo_key
                      THEN cmp(Val(f.hi_key), item_key)
                      ELSE direction
    IN  [f EXCEPT !.mid = mid,
                  !.direction = direction,
                  !.hi = hi1,
                  !.hi_dir = direction,
                  !.hi_gt = IF ~IsNone(f.hi_key) /\ dir_hi_key <= 0
                            THEN hi1 ELSE @,
                  !.hi_le = IF ~IsNone(f.hi_key) /\ ~(dir_hi_key <= 0)
                               /\ hi1 > f.hi_le
                            THEN hi1 ELSE @]

(***************************************************************************)
(* _binary_search, lines 87-100: keep searching to the left.               *)
(***************************************************************************)
BsGoLeft(f, mid, item_key, direction) ==
    LET hi1 == IF mid < f.hi THEN mid ELSE f.hi - 1
        dir_hi_key == IF Val(f.hi_key) # f.lo_key
                      THEN cmp(Val(f.hi_key), item_key)
                      ELSE direction
    IN  [f EXCEPT !.mid = mid,
                  !.direction = direction,
                  !.hi = hi1,
                  !.hi_dir = direction,
                  !.hi_gt = IF ~IsNone(f.hi_key) /\ dir_hi_key < 0
                            THEN hi1 ELSE @,
                  !.hi_le = IF ~IsNone(f.hi_key) /\ ~(dir_hi_key < 0)
                               /\ hi1 > f.hi_le
                            THEN hi1 ELSE @]

\* BsGoRight without the guard of line 104: lo is set to mid even when mid
\* is lo.
BsGoRightRepeatsLo(f, mid, direction) ==
    [f EXCEPT !.mid = mid,
              !.direction = direction,
              !.lo = mid,
              !.lo_dir = direction,
              !.hi_le = IF ~IsNone(f.hi_key) /\ mid > f.hi_le
                        THEN mid ELSE @]

\* BsGoRight with the hints mixed up: the new lo is stored as the upper
\* hint hi_gt.
BsGoRightLowersHiGt(f, mid, direction) ==
    LET lo1 == IF mid > f.lo THEN mid ELSE f.lo + 1
    IN  [f EXCEPT !.mid = mid,
                  !.direction = direction,
                  !.lo = lo1,
                  !.lo_dir = direction,
                  !.hi_gt = IF ~IsNone(f.hi_key) /\ lo1 > f.hi_le
                            THEN lo1 ELSE @]

(***************************************************************************)
(* _binary_search, lines 102-109: keep searching to the right.             *)
(***************************************************************************)
BsGoRight(f, mid, direction) ==
    LET lo1 == IF mid > f.lo THEN mid ELSE f.lo + 1
    IN  [f EXCEPT !.mid = mid,
                  !.direction = direction,
                  !.lo = lo1,
                  !.lo_dir = direction,
                  !.hi_le = IF ~IsNone(f.hi_key) /\ lo1 > f.hi_le
                            THEN lo1 ELSE @]

\* BsIterate with the Target.lo tie rule dropped: an equal item ends the
\* search wherever it is met.
BsIterateNoLoTie(items, f) ==
    LET mid       == (f.lo + f.hi) \div 2
        item_key  == items[mid + 1]
        direction == cmp(f.lo_key, item_key)
    IN  IF direction < 0
        THEN BsGoLeft(f, mid, item_key, direction)
        ELSE IF direction > 0 \/ (direction = 0 /\ f.target = "hi")
        THEN BsGoRight(f, mid, direction)
        ELSE [f EXCEPT !.mid = mid, !.direction = direction, !.hit = TRUE]

\* BsIterate with the Target.hi tie rule turned left: an equal item moves
\* hi down, as for Target.lo.
BsIterateHiTieLeft(items, f) ==
    LET mid       == (f.lo + f.hi) \div 2
        item_key  == items[mid + 1]
        direction == cmp(f.lo_key, item_key)
    IN  IF direction < 0 \/ (direction = 0 /\ f.target \in {"lo", "hi"})
        THEN BsGoLeft(f, mid, item_key, direction)
        ELSE IF direction > 0
        THEN BsGoRight(f, mid, direction)
        ELSE [f EXCEPT !.mid = mid, !.direction = direction, !.hit = TRUE]

(***************************************************************************)
(* _binary_search, lines 76-112: one iteration of the loop.  The key       *)
(* function is None, so an item is its own key.                            *)
(***************************************************************************)
BsIterate(items, f) ==
    LET mid       == (f.lo + f.hi) \div 2
        item_key  == items[mid + 1]
        direction == cmp(f.lo_key, item_key)
    IN  IF direction < 0 \/ (direction = 0 /\ f.target = "lo")
        THEN BsGoLeft(f, mid, item_key, direction)
        ELSE IF direction > 0 \/ (direction = 0 /\ f.target = "hi")
        THEN BsGoRight(f, mid, direction)
        ELSE [f EXCEPT !.mid = mid, !.direction = direction, !.hit = TRUE]

\* BsReturn without line 117-118: the last comparison stands even when lo
\* has moved off mid.
BsReturnStaleDirection(f) ==
    IF f.hit
    THEN <<TRUE, f.mid, f.hi_le, f.hi_gt>>
    ELSE <<f.direction = 0, f.lo, f.hi_le, f.hi_gt>>

(***************************************************************************)
(* _binary_search, lines 112 and 117-121: the tuple returned, either from  *)
(* inside the loop (an "any" hit) or after it.                             *)
(***************************************************************************)
BsReturn(f) ==
    IF f.hit
    THEN <<TRUE, f.mid, f.hi_le, f.hi_gt>>
    ELSE LET direction == IF f.lo # f.mid THEN f.lo_dir * f.hi_dir
                          ELSE f.direction
         IN  <<direction = 0, f.lo, f.hi_le, f.hi_gt>>

\* the event types
Types == 1..MaxType

\* an EventSequence without events: the fields _events, _los, _his and
\* _types2evs that EventSequence(()) sets (event.py, lines 95-129)
NoSequence == [events |-> <<>>, los |-> <<>>, his |-> None,
               types2evs |-> [t \in Types |-> <<>>]]

\* no EventSequence call is under way
IdleEvents ==
    /\ ev_in = <<>>
    /\ es = NoSequence
    /\ ev_op = "none"
    /\ ev_args = <<>>
    /\ ev_out = <<>>
    /\ dicts = <<>>

NoFrame == [lo_key |-> 0, hi_key |-> None, target |-> "any", lo |-> 0,
            hi |-> 0, mid |-> 0, direction |-> 0, lo_dir |-> 0,
            hi_dir |-> 0, hi_le |-> 0, hi_gt |-> 0, hit |-> FALSE]

(***************************************************************************)
(* The arguments a caller can hand to binary_search.  target_key_hi is     *)
(* read only when target is Target.range (line 162), so it is drawn only   *)
(* there.                                                                  *)
(***************************************************************************)
InitSearch ==
    /\ \E a \in Arrays, t \in TargetKeys, tg \in Target,
          l \in Option(Bounds), h \in Option(Bounds) :
          \E th \in (IF tg = "range" THEN Option(TargetKeys) ELSE {None}) :
             call = [items |-> a, target_key |-> t, target_key_hi |-> th,
                     lo |-> l, hi |-> h, target |-> tg]
    /\ frame = NoFrame
    /\ pc = "start"
    /\ pass = 0
    /\ first = None
    /\ result = None
    /\ ivl_op = "none"
    /\ ivl_args = <<>>
    /\ ivl_out = <<>>
    /\ IdleEvents

(***************************************************************************)
(* binary_search, lines 162-166 and 171-172: the (first) call of           *)
(* _binary_search.                                                         *)
(***************************************************************************)
FirstSearch ==
    /\ pc = "start"
    /\ frame' = IF call.target = "range"
                THEN BsEnter(call.items, call.target_key,
                             IF IsNone(call.target_key_hi)
                             THEN Some(call.target_key)
                             ELSE call.target_key_hi,
                             call.lo, call.hi, "lo")
                ELSE BsEnter(call.items, call.target_key, None,
                             call.lo, call.hi, call.target)
    /\ pass' = 1
    /\ pc' = "loop"
    /\ UNCHANGED <<call, first, result, interval_vars, event_vars>>

(***************************************************************************)
(* _binary_search, lines 76-112: the loop test holds and the body runs.    *)
(***************************************************************************)
Iterate ==
    /\ pc = "loop"
    /\ frame.lo < frame.hi
    /\ frame' = BsIterate(call.items, frame)
    /\ pc' = IF frame'.hit THEN "returned" ELSE "loop"
    /\ UNCHANGED <<call, pass, first, result, interval_vars, event_vars>>

(***************************************************************************)
(* _binary_search, lines 76 and 113-121: the loop test fails.              *)
(***************************************************************************)
LoopExit ==
    /\ pc = "loop"
    /\ ~(frame.lo < frame.hi)
    /\ pc' = "returned"
    /\ UNCHANGED <<call, frame, pass, first, result, interval_vars, event_vars>>

(***************************************************************************)
(* binary_search, lines 167-168: the second search of a range query,       *)
(* for the right insertion point inside [hi_le, hi_gt).                    *)
(***************************************************************************)
SecondSearch ==
    /\ pc = "returned"
    /\ call.target = "range"
    /\ pass = 1
    /\ LET r == BsReturn(frame)
       IN  /\ first' = Some(r)
           /\ frame' = BsEnter(call.items, frame.hi_key[1], None,
                               Some(r[3]), Some(r[4]), "hi")
    /\ pass' = 2
    /\ pc' = "loop"
    /\ UNCHANGED <<call, result, interval_vars, event_vars>>

(***************************************************************************)
(* binary_search, lines 169 and 173: the value returned to the caller.     *)
(***************************************************************************)
BinarySearchResult(c, firstRet, f) ==
    IF c.target = "range"
    THEN <<Val(firstRet)[2] < BsReturn(f)[2],
           <<Val(firstRet)[2], BsReturn(f)[2]>> >>
    ELSE <<BsReturn(f)[1], BsReturn(f)[2]>>

Return ==
    /\ pc = "returned"
    /\ call.target = "range" => pass = 2
    /\ result' = Some(BinarySearchResult(call, first, frame))
    /\ pc' = "done"
    /\ UNCHANGED <<call, frame, pass, first, interval_vars, event_vars>>

NextSearch ==
    \/ FirstSearch
    \/ Iterate
    \/ LoopExit
    \/ SecondSearch
    \/ Return

SpecSearch == InitSearch /\ [][NextSearch]_vars

(***************************************************************************)
(* The calls whose window is open at an end (None) or has a bound inside   *)
(* the longest array: whole, partial, empty and inverted windows.  The     *)
(* interpreter runs a call to its end: no step that can be taken is put    *)
(* off for ever.                                                           *)
(***************************************************************************)
InitLoop ==
    /\ \E a \in Arrays, t \in TargetKeys, tg \in Target,
          l \in Option({1, MaxLen - 1}), h \in Option({1, MaxLen - 1}) :
          \E th \in (IF tg = "range" THEN {None, Some(MaxKey)} ELSE {None}) :
             call = [items |-> a, target_key |-> t, target_key_hi |-> th,
                     lo |-> l, hi |-> h, target |-> tg]
    /\ frame = NoFrame
    /\ pc = "start"
    /\ pass = 0
    /\ first = None
    /\ result = None
    /\ ivl_op = "none"
    /\ ivl_args = <<>>
    /\ ivl_out = <<>>
    /\ IdleEvents

SpecLoop == InitLoop /\ [][NextSearch]_vars /\ WF_vars(NextSearch)


(***************************************************************************)
(* interval.AllenRelation, lines 31-45: the values of the enumeration.     *)
(***************************************************************************)
before == -6

abut_before == -5

overlap_before == -4

outside_end == -3

outside == -2

inside_begin == -1

equal == 0

outside_begin == 1

inside == 2

inside_end == 3

overlap_after == 4

abut_after == 5

after == 6

AllenValues == before..after

\* AllenRelation.inverse, lines 50-51
inverse(value) == -value

\* IntervalInit with the bounds checked before hi is resolved: a hi that
\* comes from lo + length is never checked.
IntervalInitUncheckedLength(lo, hi, lo_open, hi_open, length) ==
    LET hi1 == IF IsNone(hi)
               THEN (IF IsNone(length) THEN lo ELSE lo + Val(length))
               ELSE Val(hi)
        length1  == IF IsNone(length) THEN hi1 - lo ELSE Val(length)
        lo_open1 == IF lo = hi1 THEN (lo_open \/ hi_open) ELSE lo_open
        hi_open1 == IF lo = hi1 THEN lo_open1 ELSE hi_open
    IN  IF ~IsNone(hi) /\ lo > Val(hi)
        THEN [raised |-> TRUE]
        ELSE [raised |-> FALSE,
              itvl   |-> [lo |-> lo, hi |-> hi1, lopen |-> lo_open1,
                          hopen |-> hi_open1, length |-> length1]]

(***************************************************************************)
(* Interval.__init__, lines 150-181.  The bounds are integers, so hi - lo  *)
(* never raises TypeError.  The outcome is the ValueError raised or the    *)
(* interval built.                                                         *)
(***************************************************************************)
IntervalInit(lo, hi, lo_open, hi_open, length) ==
    LET hi1 == IF IsNone(hi)
               THEN (IF IsNone(length) THEN lo ELSE lo + Val(length))
               ELSE Val(hi)
        length1  == IF IsNone(length) THEN hi1 - lo ELSE Val(length)
        lo_open1 == IF lo = hi1 THEN (lo_open \/ hi_open) ELSE lo_open
        hi_open1 == IF lo = hi1 THEN lo_open1 ELSE hi_open
    IN  IF lo > hi1
        THEN [raised |-> TRUE]
        ELSE [raised |-> FALSE,
              itvl   |-> [lo |-> lo, hi |-> hi1, lopen |-> lo_open1,
                          hopen |-> hi_open1, length |-> length1]]

\* Interval(lo, hi, lo_open, hi_open) where lo <= hi is known
Interval(lo, hi, lo_open, hi_open) ==
    IntervalInit(lo, Some(hi), lo_open, hi_open, None).itvl

\* Interval.is_empty, lines 199-201
is_empty(self) == self.lo = self.hi /\ self.lopen /\ self.hopen

\* Interval.is_point, lines 203-205
is_point(self) == self.lo = self.hi /\ ~(self.lopen \/ self.hopen)

\* Python orders False before True
B2I(b) == IF b THEN 1 ELSE 0

\* Interval.key, lines 210-214
key(self) == <<self.lo, B2I(self.lopen), self.hi, B2I(~self.hopen)>>

\* Python's lexicographic order of two tuples of the same length
RECURSIVE TupleLt(_, _)
TupleLt(t1, t2) ==
    IF t1 = <<>> THEN FALSE
    ELSE IF Head(t1) # Head(t2) THEN Head(t1) < Head(t2)
    ELSE TupleLt(Tail(t1), Tail(t2))

TupleLe(t1, t2) == t1 = t2 \/ TupleLt(t1, t2)

\* Interval.__eq__, lines 216-220
IntervalEq(self, other) ==
    key(self) = key(other) \/ (is_empty(self) /\ is_empty(other))

\* IntervalLt with the two emptiness tests in the order of __le__: an empty
\* self is less than an empty other.
IntervalLtSelfFirst(self, other) ==
    IF is_empty(self) THEN TRUE
    ELSE IF is_empty(other) THEN FALSE
    ELSE TupleLt(key(self), key(other))

\* Interval.__lt__, lines 228-233
IntervalLt(self, other) ==
    IF is_empty(other) THEN FALSE
    ELSE IF is_empty(self) THEN TRUE
    ELSE TupleLt(key(self), key(other))

\* Interval.__le__, lines 235-240
IntervalLe(self, other) ==
    IF is_empty(self) THEN TRUE
    ELSE IF is_empty(other) THEN FALSE
    ELSE TupleLe(key(self), key(other))

\* Interval.__gt__, lines 242-247
IntervalGt(self, other) ==
    IF is_empty(self) THEN FALSE
    ELSE IF is_empty(other) THEN TRUE
    ELSE TupleLt(key(other), key(self))

\* Interval.__ge__, lines 249-254
IntervalGe(self, other) ==
    IF is_empty(other) THEN TRUE
    ELSE IF is_empty(self) THEN FALSE
    ELSE TupleLe(key(other), key(self))

(***************************************************************************)
(* Interval.allen_relation, lines 332-361.                                 *)
(***************************************************************************)
lo_bases == <<0, 5, 9, 12, 14>>

allen_relation(self, other) ==
    LET cmp_lolo == cmp(self.lo, other.lo)
        cmp_lohi == cmp(self.lo, other.hi)
        lo_num   == cmp_lolo + cmp_lohi + 2
        cmp_hilo == cmp(self.hi, other.lo)
        cmp_hihi == cmp(self.hi, other.hi)
        hi_num   == cmp_hilo + cmp_hihi + 2
        allen_num0 == lo_bases[lo_num + 1] + hi_num - lo_num
        allen_num == IF allen_num0 > 12 THEN allen_num0 - 2
                     ELSE IF allen_num0 > 5 THEN allen_num0 - 1
                     ELSE IF allen_num0 = 5 THEN 1
                     ELSE allen_num0
    IN  allen_num - 6

\* union2 keeping touching intervals apart when either side is open at the
\* shared bound, not only when both are.
union2EitherOpen(itvl1, itvl2) ==
    IF is_empty(itvl1) THEN <<itvl2>>
    ELSE IF is_empty(itvl2) THEN <<itvl1>>
    ELSE IF itvl1.hi < itvl2.lo THEN <<itvl1, itvl2>>
    ELSE IF itvl2.hi < itvl1.lo THEN <<itvl2, itvl1>>
    ELSE IF itvl1.hi = itvl2.lo
    THEN IF itvl1.hopen \/ itvl2.lopen
         THEN <<itvl1, itvl2>>
         ELSE <<Interval(itvl1.lo, itvl2.hi, itvl1.lopen, itvl2.hopen)>>
    ELSE IF itvl2.hi = itvl1.lo
    THEN IF itvl2.hopen \/ itvl1.lopen
         THEN <<itvl2, itvl1>>
         ELSE <<Interval(itvl2.lo, itvl1.hi, itvl2.lopen, itvl1.hopen)>>
    ELSE LET lo1 == <<itvl1.lo, B2I(itvl1.lopen)>>
             lo2 == <<itvl2.lo, B2I(itvl2.lopen)>>
             hi1 == <<itvl1.hi, B2I(~itvl1.hopen)>>
             hi2 == <<itvl2.hi, B2I(~itvl2.hopen)>>
             lo  == IF TupleLt(lo2, lo1) THEN lo2 ELSE lo1
             hi  == IF TupleLt(hi1, hi2) THEN hi2 ELSE hi1
         IN  <<Interval(lo[1], hi[1], lo[2] = 1, ~(hi[2] = 1))>>

(***************************************************************************)
(* _union, lines 54-81: the union of two intervals as a tuple of one or    *)
(* two intervals.                                                          *)
(***************************************************************************)
union2(itvl1, itvl2) ==
    IF is_empty(itvl1) THEN <<itvl2>>
    ELSE IF is_empty(itvl2) THEN <<itvl1>>
    ELSE IF itvl1.hi < itvl2.lo THEN <<itvl1, itvl2>>
    ELSE IF itvl2.hi < itvl1.lo THEN <<itvl2, itvl1>>
    ELSE IF itvl1.hi = itvl2.lo
    THEN IF itvl1.hopen /\ itvl2.lopen
         THEN <<itvl1, itvl2>>
         ELSE <<Interval(itvl1.lo, itvl2.hi, itvl1.lopen, itvl2.hopen)>>
    ELSE IF itvl2.hi = itvl1.lo
    THEN IF itvl2.hopen /\ itvl1.lopen
         THEN <<itvl2, itvl1>>
         ELSE <<Interval(itvl2.lo, itvl1.hi, itvl2.lopen, itvl1.hopen)>>
    ELSE LET lo1 == <<itvl1.lo, B2I(itvl1.lopen)>>
             lo2 == <<itvl2.lo, B2I(itvl2.lopen)>>
             hi1 == <<itvl1.hi, B2I(~itvl1.hopen)>>
             hi2 == <<itvl2.hi, B2I(~itvl2.hopen)>>
             lo  == IF TupleLt(lo2, lo1) THEN lo2 ELSE lo1
             hi  == IF TupleLt(hi1, hi2) THEN hi2 ELSE hi1
         IN  <<Interval(lo[1], hi[1], lo[2] = 1, ~(hi[2] = 1))>>

\* the sort key of lines 295 and 374: (i.lo, i.hi)
LoHi(i) == <<i.lo, i.hi>>

\* list.sort / sorted with key (i.lo, i.hi): a stable sort, by insertion of
\* each item after the items whose key is not greater
RECURSIVE SortByLoHi(_)
SortByLoHi(itvls) ==
    IF itvls = <<>> THEN <<>>
    ELSE LET n    == Len(itvls)
             x    == itvls[n]
             done == SortByLoHi(SubSeq(itvls, 1, n - 1))
             p    == Cardinality({j \in 1..(n - 1) : TupleLe(LoHi(done[j]), LoHi(x))})
         IN  SubSeq(done, 1, p) \o <<x>> \o SubSeq(done, p + 1, n - 1)

\* Interval.union, lines 296-298: the fold over the sorted intervals
RECURSIVE UnionFold(_, _)
UnionFold(unioned, itvls) ==
    IF itvls = <<>> THEN unioned
    ELSE UnionFold(SubSeq(unioned, 1, Len(unioned) - 1)
                      \o union2(unioned[Len(unioned)], Head(itvls)),
                   Tail(itvls))

(***************************************************************************)
(* Interval.union, lines 292-302, and CompoundInterval.__init__, lines     *)
(* 366-375.  itvls is self followed by the others.  The result is the      *)
(* single Interval, or the CompoundInterval with its sorted members.       *)
(***************************************************************************)
union(itvls) ==
    LET sorted  == SortByLoHi(itvls)
        unioned == UnionFold(<<sorted[1]>>, Tail(sorted))
    IN  IF Len(unioned) > 1
        THEN [compound |-> TRUE, intervals |-> SortByLoHi(unioned)]
        ELSE [compound |-> FALSE, intervals |-> unioned]

\* _intersection_bounds taking the closed bound on a tie of the low bounds:
\* min in place of max on the openness of the low bound.
intersection_boundsLoClosedWins(itvl1, itvl2) ==
    LET lo1 == <<itvl1.lo, B2I(itvl1.lopen)>>
        lo2 == <<itvl2.lo, B2I(itvl2.lopen)>>
        hi1 == <<itvl1.hi, B2I(~itvl1.hopen)>>
        hi2 == <<itvl2.hi, B2I(~itvl2.hopen)>>
        lo  == IF lo1[1] = lo2[1]
               THEN (IF TupleLt(lo2, lo1) THEN lo2 ELSE lo1)
               ELSE (IF TupleLt(lo1, lo2) THEN lo2 ELSE lo1)
        hi  == IF TupleLt(hi2, hi1) THEN hi2 ELSE hi1
    IN  <<lo[1], hi[1], lo[2] = 1, ~(hi[2] = 1)>>

(***************************************************************************)
(* _intersection_bounds, lines 84-90: max of the (lo, lo_open) pairs and   *)
(* min of the (hi, not hi_open) pairs, compared as tuples.                 *)
(***************************************************************************)
intersection_bounds(itvl1, itvl2) ==
    LET lo1 == <<itvl1.lo, B2I(itvl1.lopen)>>
        lo2 == <<itvl2.lo, B2I(itvl2.lopen)>>
        hi1 == <<itvl1.hi, B2I(~itvl1.hopen)>>
        hi2 == <<itvl2.hi, B2I(~itvl2.hopen)>>
        lo  == IF TupleLt(lo1, lo2) THEN lo2 ELSE lo1
        hi  == IF TupleLt(hi2, hi1) THEN hi2 ELSE hi1
    IN  <<lo[1], hi[1], lo[2] = 1, ~(hi[2] = 1)>>

\* _intersection, lines 93-103
intersection2(itvl1, itvl2) ==
    LET b == intersection_bounds(itvl1, itvl2)
        lo == b[1]
        hi == b[2]
        lo_open == b[3]
        hi_open == b[4]
    IN  IF lo > hi
        THEN IntervalInit(0, None, TRUE, FALSE, None).itvl
        ELSE IF lo = hi
        THEN IntervalInit(lo, None, lo_open \/ hi_open, FALSE, None).itvl
        ELSE Interval(lo, hi, lo_open, hi_open)

\* Interval.intersection, lines 316-322: the fold over the others, left as
\* soon as the partial result is empty
RECURSIVE intersection(_, _)
intersection(self, others) ==
    IF others = <<>> THEN self
    ELSE LET itvl == intersection2(self, Head(others))
         IN  IF is_empty(itvl) THEN itvl ELSE intersection(itvl, Tail(others))

\* Interval.intersects, lines 304-314
intersects(self, other) ==
    LET b == intersection_bounds(self, other)
    IN  IF b[1] > b[2] THEN FALSE
        ELSE IF b[1] = b[2] THEN ~(b[3] \/ b[4])
        ELSE TRUE

\* Interval.issubset, lines 282-290; is_lo_open >= other.is_lo_open compares
\* the booleans as 0 and 1
issubset(self, other) ==
    IF is_empty(self) THEN TRUE
    ELSE IF self.lo < other.lo \/ self.hi > other.hi THEN FALSE
    ELSE /\ (self.lo > other.lo \/ B2I(self.lopen) >= B2I(other.lopen))
         /\ (self.hi < other.hi \/ B2I(self.hopen) >= B2I(other.hopen))

(***************************************************************************)
(* The inputs of the interval operations.                                  *)
(***************************************************************************)
Points == 0..MaxPoint

Lengths == (-1)..MaxPoint

\* every interval Interval(lo, hi, lo_open, hi_open) builds over Points
Intervals ==
    { Interval(b[1], b[2], lo_open, hi_open) :
        b \in {x \in Points \X Points : x[1] <= x[2]},
        lo_open \in BOOLEAN, hi_open \in BOOLEAN }

IdleCall == [items |-> <<>>, target_key |-> 0, target_key_hi |-> None,
             lo |-> None, hi |-> None, target |-> "any"]

InitInterval ==
    /\ call = IdleCall
    /\ frame = NoFrame
    /\ pc = "idle"
    /\ pass = 0
    /\ first = None
    /\ result = None
    /\ ivl_op = "none"
    /\ ivl_args = <<>>
    /\ ivl_out = <<>>
    /\ IdleEvents

\* a call Interval(lo, hi, lo_open, hi_open, length)
Construct ==
    /\ ivl_op = "none"
    /\ \E lo \in Points, hi \in Option(Points), lo_open \in BOOLEAN,
          hi_open \in BOOLEAN, length \in Option(Lengths) :
          /\ ivl_args' = [lo |-> lo, hi |-> hi, lo_open |-> lo_open,
                          hi_open |-> hi_open, length |-> length]
          /\ ivl_out' = IntervalInit(lo, hi, lo_open, hi_open, length)
    /\ ivl_op' = "init"
    /\ UNCHANGED <<search_vars, event_vars>>

\* a call a.allen_relation(b)
AllenRelation ==
    /\ ivl_op = "none"
    /\ \E a \in Intervals, b \in Intervals :
          /\ ivl_args' = <<a, b>>
          /\ ivl_out' = [relation |-> allen_relation(a, b)]
    /\ ivl_op' = "allen_relation"
    /\ UNCHANGED <<search_vars, event_vars>>

\* the comparisons a < b, a == b, a > b, a <= b, a >= b
Compare ==
    /\ ivl_op = "none"
    /\ \E a \in Intervals, b \in Intervals :
          /\ ivl_args' = <<a, b>>
          /\ ivl_out' = [lt |-> IntervalLt(a, b), eq |-> IntervalEq(a, b),
                         gt |-> IntervalGt(a, b), le |-> IntervalLe(a, b),
                         ge |-> IntervalGe(a, b)]
    /\ ivl_op' = "compare"
    /\ UNCHANGED <<search_vars, event_vars>>

\* a call itvls[1].union(itvls[2], ..., itvls[k])
Union ==
    /\ ivl_op = "none"
    /\ \E k \in 1..MaxOperands :
          \E itvls \in [1..k -> Intervals] :
             /\ ivl_args' = itvls
             /\ ivl_out' = union(itvls)
    /\ ivl_op' = "union"
    /\ UNCHANGED <<search_vars, event_vars>>

\* a call self.intersection(others[1], ...), with self.intersects and the
\* issubset of the result in self; self and the others are one interval
\* fewer than the most a union call takes
Intersection ==
    /\ ivl_op = "none"
    /\ \E self \in Intervals, k \in 1..(MaxOperands - 2) :
          \E others \in [1..k -> Intervals] :
             /\ ivl_args' = <<self>> \o others
             /\ ivl_out' = [itvl |-> intersection(self, others),
                            intersects |-> intersects(self, others[1])]
    /\ ivl_op' = "intersection"
    /\ UNCHANGED <<search_vars, event_vars>>

NextInterval ==
    \/ Construct
    \/ AllenRelation
    \/ Compare
    \/ Union
    \/ Intersection

SpecInterval == InitInterval /\ [][NextInterval]_vars


(***************************************************************************)
(* binary_search as its callers in event.py use it: a call that runs to    *)
(* its return.  A key function is applied by handing in the keys of the    *)
(* items.                                                                  *)
(***************************************************************************)
\* _binary_search, lines 76-112: the loop, until its test fails or line 112
\* returns
RECURSIVE BsLoop(_, _)
BsLoop(items, f) ==
    IF f.lo < f.hi /\ ~f.hit THEN BsLoop(items, BsIterate(items, f)) ELSE f

\* _binary_search, lines 30-121: (found, index, hi_le, hi_gt)
BsCall(items, lo_key, hi_key, lo, hi, target) ==
    BsReturn(BsLoop(items, BsEnter(items, lo_key, hi_key, lo, hi, target)))

\* binary_search, lines 124-173: (found, index) or (found, (lo, hi))
binary_search(items, target_key, target_key_hi, lo, hi, target) ==
    IF target = "range"
    THEN LET hi_key == IF IsNone(target_key_hi) THEN target_key
                       ELSE Val(target_key_hi)
         IN  Let([r1 \in {BsCall(items, target_key, Some(hi_key), lo, hi,
                                 "lo")} |->
             Let([r2 \in {BsCall(items, hi_key, None, Some(r1[3]),
                                 Some(r1[4]), "hi")} |->
             <<r1[2] < r2[2], <<r1[2], r2[2]>> >>])])
    ELSE Let([r \in {BsCall(items, target_key, None, lo, hi, target)} |->
             <<r[1], r[2]>>])

(***************************************************************************)
(* event.Event, lines 27-73.  An event is the record of its when, type     *)
(* and value.  A when is an Interval, or a plain orderable value n, which  *)
(* is written [at |-> n].                                                  *)
(***************************************************************************)
Event(when, type, value) == [when |-> when, type |-> type, value |-> value]

\* isinstance(when, interval.Interval), lines 103, 360 and 531
IsInterval(when) == "lo" \in DOMAIN when

\* lines 102-113: the low and the high bound of a when
WhenLo(when) == IF IsInterval(when) THEN when.lo ELSE when.at

WhenHi(when) == IF IsInterval(when) THEN when.hi ELSE when.at

\* when == when, which is false between an Interval and a plain value, and
\* when < when for two whens of one kind
WhenEq(w1, w2) ==
    IF IsInterval(w1) # IsInterval(w2) THEN FALSE
    ELSE IF IsInterval(w1) THEN IntervalEq(w1, w2)
    ELSE w1.at = w2.at

WhenLt(w1, w2) == IF IsInterval(w1) THEN IntervalLt(w1, w2) ELSE w1.at < w2.at

\* Event.__eq__, lines 65-70
EventEq(self, other) ==
    /\ WhenEq(self.when, other.when)
    /\ self.type = other.type
    /\ self.value = other.value

\* line 96: the order of the sort keys attrgetter('when', 'type'), compared
\* as tuples: by the first component on which they are not equal
SortKeyLt(e1, e2) ==
    IF ~WhenEq(e1.when, e2.when) THEN WhenLt(e1.when, e2.when)
    ELSE e1.type < e2.type

\* sorted_events with the key attrgetter('when') alone: the types are left
\* in their input order.
RECURSIVE sorted_eventsByWhenOnly(_)
sorted_eventsByWhenOnly(events) ==
    IF events = <<>> THEN <<>>
    ELSE LET n    == Len(events)
             x    == events[n]
             done == sorted_eventsByWhenOnly(SubSeq(events, 1, n - 1))
             p    == Cardinality({j \in 1..(n - 1) : ~WhenLt(x.when, done[j].when)})
         IN  SubSeq(done, 1, p) \o <<x>> \o SubSeq(done, p + 1, n - 1)

\* sorted(events, key=...), lines 95-96: a stable sort, by insertion of each
\* event after the events that its key is not less than
RECURSIVE sorted_events(_)
sorted_events(events) ==
    IF events = <<>> THEN <<>>
    ELSE LET n    == Len(events)
             x    == events[n]
             done == sorted_events(SubSeq(events, 1, n - 1))
             p    == Cardinality({j \in 1..(n - 1) : ~SortKeyLt(x, done[j])})
         IN  SubSeq(done, 1, p) \o <<x>> \o SubSeq(done, p + 1, n - 1)

\* list.sort of (key, index) pairs, line 118: the pairs are distinct, so
\* each stands after the pairs less than it
SortPairs(pairs) ==
    LET all == {pairs[i] : i \in 1..Len(pairs)}
    IN  [k \in 1..Len(pairs) |->
            CHOOSE p \in all : Cardinality({q \in all : TupleLt(q, p)}) = k - 1]

(***************************************************************************)
(* EventSequence.__init__, lines 91-132: _events, the tagged arrays _los   *)
(* and _his of (bound, index) pairs, _his being None unless some interval  *)
(* has lo != hi, and _types2evs, where a type without events has the       *)
(* empty list that every reader gets from .get(type, ()).                  *)
(***************************************************************************)
EventSequenceInit(events) ==
    LET evs  == sorted_events(events)
        n    == Len(evs)
        los  == [i \in 1..n |-> <<WhenLo(evs[i].when), i - 1>>]
        his  == [i \in 1..n |-> <<WhenHi(evs[i].when), i - 1>>]
        diff_los_his == \E i \in 1..n : /\ IsInterval(evs[i].when)
                                        /\ evs[i].when.lo # evs[i].when.hi
        idxs == [i \in 1..n |-> i - 1]
    IN  [events    |-> evs,
         los       |-> los,
         his       |-> IF diff_los_his THEN Some(SortPairs(his)) ELSE None,
         types2evs |-> [t \in Types |->
                           SelectSeq(idxs, LAMBDA i : evs[i + 1].type = t)]]

(***************************************************************************)
(* The events handed to EventSequence: events at plain values, or events   *)
(* at closed intervals, with types 1..MaxType and values 0..MaxValue.      *)
(***************************************************************************)
PointWhens == {[at |-> n] : n \in 0..MaxWhen}

IntervalWhens ==
    {Interval(b[1], b[2], FALSE, FALSE) :
        b \in {x \in (0..MaxWhen) \X (0..MaxWhen) : x[1] <= x[2]}}

Values == 0..MaxValue

EventsAt(whens, values) ==
    {Event(w, t, v) : w \in whens, t \in Types, v \in values}

EventLists(events) == UNION {[1..n -> events] : n \in 0..MaxEvents}

\* the iterables of events with values
ValuedInputs ==
    EventLists(EventsAt(PointWhens, Values))
        \cup EventLists(EventsAt(IntervalWhens, Values))

\* the iterables of events that all have the value 0
PlainInputs ==
    EventLists(EventsAt(PointWhens, {0}))
        \cup EventLists(EventsAt(IntervalWhens, {0}))

\* no search and no interval operation is under way
IdleRest ==
    /\ call = IdleCall
    /\ frame = NoFrame
    /\ pc = "idle"
    /\ pass = 0
    /\ first = None
    /\ result = None
    /\ ivl_op = "none"
    /\ ivl_args = <<>>
    /\ ivl_out = <<>>

(***************************************************************************)
(* Construction and iteration of an EventSequence.                         *)
(***************************************************************************)
InitConstruct ==
    /\ IdleRest
    /\ ev_in \in ValuedInputs
    /\ es = NoSequence
    /\ ev_op = "none"
    /\ ev_args = <<>>
    /\ ev_out = <<>>
    /\ dicts = <<>>

\* EventSequence(events), lines 79-132
NewEventSequence ==
    /\ ev_op = "none"
    /\ es' = EventSequenceInit(ev_in)
    /\ ev_op' = "init"
    /\ UNCHANGED <<search_vars, interval_vars, dicts, ev_in, ev_args, ev_out>>

\* list(es.events()) or list(es), lines 204-206 and 272-273
Events ==
    /\ ev_op = "init"
    /\ ev_out' = [events |-> es.events]
    /\ ev_op' = "events"
    /\ UNCHANGED <<search_vars, interval_vars, dicts, ev_in, es, ev_args>>

NextConstruct ==
    \/ NewEventSequence
    \/ Events

SpecConstruct == InitConstruct /\ [][NextConstruct]_vars

(***************************************************************************)
(* Construction from events at plain values, or at intervals of every      *)
(* kind: closed, half-open and open ones, points and empty intervals.      *)
(***************************************************************************)
InitIndex ==
    /\ IdleRest
    /\ LET whens == {Interval(b[1], b[2], lo_open, hi_open) :
                        b \in {x \in (0..MaxWhen) \X (0..MaxWhen) :
                                  x[1] <= x[2]},
                        lo_open \in BOOLEAN, hi_open \in BOOLEAN}
       IN  ev_in \in EventLists(EventsAt(PointWhens, {0}))
                        \cup EventLists(EventsAt(whens, {0}))
    /\ es = NoSequence
    /\ ev_op = "none"
    /\ ev_args = <<>>
    /\ ev_out = <<>>
    /\ dicts = <<>>

SpecIndex == InitIndex /\ [][NextConstruct]_vars

(***************************************************************************)
(* sorted_search.multi_search, called at event.py line 370 as              *)
(* multi_search((_los, _his), (lo, hi), keys).  Each column is a tagged    *)
(* array of (key, original index) pairs sorted by key.  Each column is     *)
(* searched for the range of positions whose key equals the column's       *)
(* target, the positions are mapped to original indices by the tags, and   *)
(* the sets of original indices are intersected; the search stops, not     *)
(* found and with the empty set, as soon as the intersection is empty.     *)
(* The result is (found, set of original indices, ranges by column), the   *)
(* range of a column that was not searched being None.                     *)
(***************************************************************************)
RECURSIVE MultiSearchFrom(_, _, _, _, _)
MultiSearchFrom(bats, tgts, col, idxs, itvls) ==
    IF col > Len(bats) THEN [found |-> TRUE, idxs |-> idxs, itvls |-> itvls]
    ELSE LET bat   == bats[col]
             keys  == [i \in 1..Len(bat) |-> bat[i][1]]
         IN  Let([r \in {binary_search(keys, tgts[col], None, None, None,
                                       "range")} |->
             LET here  == {bat[i + 1][2] : i \in r[2][1]..(r[2][2] - 1)}
                 both  == IF col = 1 THEN here ELSE idxs \cap here
                 done  == [itvls EXCEPT ![col] = Some(r[2])]
             IN  IF both = {}
                 THEN [found |-> FALSE, idxs |-> {}, itvls |-> done]
                 ELSE MultiSearchFrom(bats, tgts, col + 1, both, done)])

(***************************************************************************)
(* multi_search over the columns of a small table.  A column is handed     *)
(* over as it stands in the table when it is sorted there (a sorted        *)
(* array, whose positions are the row indices), or as the tagged array     *)
(* that mk_bat makes of it.                                                *)
(***************************************************************************)
MaxCols == 2

\* the tables of up to MaxEvents rows and n columns, of the least and the
\* greatest key
Tables(n) == UNION {[1..m -> [1..n -> {0, MaxKey}]] : m \in 0..MaxEvents}

\* column c of a table, top to bottom
Column(tbl, c) == [i \in 1..Len(tbl) |-> tbl[i][c]]

\* mk_bat(column): the (key, original_index) pairs sorted by key
mk_bat(col) == SortPairs([i \in 1..Len(col) |-> <<col[i], i - 1>>])

\* a sorted array read as a tagged array: the item at a position is tagged
\* with that position
as_bat(col) ==
    IF col.tagged THEN col.bat
    ELSE [i \in 1..Len(col.sorted) |-> <<col.sorted[i], i - 1>>]

\* the ways to hand over the columns of a table: each as a tagged array,
\* or as it is when it is sorted
ColumnsOf(tbl, n) ==
    {[c \in 1..n |-> IF tagged[c]
                     THEN [tagged |-> TRUE, bat |-> mk_bat(Column(tbl, c))]
                     ELSE [tagged |-> FALSE, sorted |-> Column(tbl, c)]] :
        tagged \in {t \in [1..n -> BOOLEAN] :
                       \A c \in 1..n :
                          \/ t[c]
                          \/ \A i \in 1..(Len(tbl) - 1) :
                                tbl[i][c] <= tbl[i + 1][c]}}

\* the table, its columns and one target per column
InitMultiSearch ==
    /\ IdleRest
    /\ es = NoSequence
    /\ dicts = <<>>
    /\ ev_op = "none"
    /\ ev_out = <<>>
    /\ \E n \in 1..MaxCols :
          /\ ev_in \in Tables(n)
          /\ \E cols \in ColumnsOf(ev_in, n), tgts \in [1..n -> {0, 1, MaxKey}] :
                ev_args = [cols |-> cols, tgts |-> tgts]

\* a search that stops after the first column.
multi_searchFirstColumn(bats, tgts) ==
    LET r == MultiSearchFrom(<<bats[1]>>, <<tgts[1]>>, 1, {}, <<None>>)
    IN  [found |-> r.found,
         idxs  |-> r.idxs,
         itvls |-> [c \in 1..Len(bats) |->
                       IF c = 1 THEN r.itvls[1] ELSE None]]

multi_search(bats, tgts) ==
    MultiSearchFrom(bats, tgts, 1, {}, [c \in 1..Len(bats) |-> None])

\* a call multi_search(cols, tgts, keys)
MultiSearch ==
    /\ ev_op = "none"
    /\ ev_out' = multi_search([c \in 1..Len(ev_args.cols) |->
                                  as_bat(ev_args.cols[c])],
                              ev_args.tgts)
    /\ ev_op' = "multi_search"
    /\ UNCHANGED <<search_vars, interval_vars, dicts, ev_in, es, ev_args>>

NextMultiSearch == MultiSearch

SpecMultiSearch == InitMultiSearch /\ [][NextMultiSearch]_vars

\* the keys of a tagged array: key=lambda i, x: x[0]
BatKeys(bat) == [i \in 1..Len(bat) |-> bat[i][1]]

(***************************************************************************)
(* EventSequence._find_when, lines 357-373.  The second component of the   *)
(* result is a range when one tagged array is searched, and the set that   *)
(* multi_search returns otherwise; range holds the bounds of the range, or *)
(* None for a set.                                                         *)
(***************************************************************************)
find_when(self, when) ==
    LET lo == WhenLo(when)
        hi == IF IsInterval(when) THEN Some(when.hi) ELSE None
    IN  IF IsNone(hi) \/ IsNone(self.his)
        THEN Let([r \in {binary_search(BatKeys(self.los), lo, None, None, None,
                                       "range")} |->
                  [found |-> r[1],
                   idxs  |-> r[2][1]..(r[2][2] - 1),
                   range |-> Some(r[2])]])
        ELSE Let([m \in {multi_search(<<self.los, Val(self.his)>>,
                                      <<lo, Val(hi)>>)} |->
                  [found |-> m.found, idxs |-> m.idxs, range |-> None]])

\* the types of the events: key=lambda i, x: x.type
TypeKeys(self) == [i \in 1..Len(self.events) |-> self.events[i].type]

(***************************************************************************)
(* EventSequence.has_event, lines 304-317.  idxs[0] and idxs[-1] at line   *)
(* 310 are the ends of a range; subscripting a set raises TypeError.       *)
(***************************************************************************)
has_event(self, event) ==
    Let([w \in {find_when(self, event.when)} |->
        IF ~w.found THEN [raised |-> FALSE, value |-> FALSE]
        ELSE IF IsNone(w.range) THEN [raised |-> TRUE, value |-> FALSE]
        ELSE Let([r \in {binary_search(TypeKeys(self), event.type, None,
                                Some(Val(w.range)[1]),
                                Some((Val(w.range)[2] - 1) + 1), "range")} |->
             LET lo == r[2][1]
                 hi == r[2][2]
             IN  IF ~r[1] THEN [raised |-> FALSE, value |-> FALSE]
                 ELSE [raised |-> FALSE,
                       value  |-> \E i \in lo..(hi - 1) :
                                     EventEq(self.events[i + 1], event)]])])

(***************************************************************************)
(* Membership queries on a constructed EventSequence.  The iterable has    *)
(* been consumed by the construction.                                      *)
(***************************************************************************)
InitHasEvent ==
    /\ IdleRest
    /\ ev_in = <<>>
    /\ \E events \in ValuedInputs : es = EventSequenceInit(events)
    /\ ev_op = "none"
    /\ ev_args = <<>>
    /\ ev_out = <<>>
    /\ dicts = <<>>

\* a call es.has_event(event)
HasEvent ==
    /\ ev_op = "none"
    /\ \E event \in EventsAt(PointWhens \cup IntervalWhens, Values) :
          /\ ev_args' = [event |-> event]
          /\ ev_out' = has_event(es, event)
    /\ ev_op' = "has_event"
    /\ UNCHANGED <<search_vars, interval_vars, dicts, ev_in, es>>

NextHasEvent == HasEvent

SpecHasEvent == InitHasEvent /\ [][NextHasEvent]_vars

\* _find_whens with the bounds the wrong way round: a strict bound keeps
\* the events at the bound and a weak bound drops them.
find_whensOpenSwapped(whens_bat, when_lo, when_hi, lo_open, hi_open) ==
    LET keys == BatKeys(whens_bat)
    IN  Let([lo_idx \in {IF IsNone(when_lo) THEN 0
             ELSE binary_search(keys, Val(when_lo), None, None, None,
                                "range")[2][IF lo_open THEN 1 ELSE 2]} |->
        Let([hi_idx \in {IF IsNone(when_hi) THEN Len(whens_bat)
             ELSE binary_search(keys, Val(when_hi), None, Some(lo_idx), None,
                                "range")[2][IF hi_open THEN 2 ELSE 1]} |->
        LET idxs == {whens_bat[i + 1][2] : i \in lo_idx..(hi_idx - 1)}
        IN  [found |-> idxs # {}, idxs |-> idxs, itvl |-> <<lo_idx, hi_idx>>]])])

(***************************************************************************)
(* EventSequence._find_whens, lines 375-401: the original indices of the   *)
(* pairs of a tagged array whose key is within the bounds.                 *)
(***************************************************************************)
find_whens(whens_bat, when_lo, when_hi, lo_open, hi_open) ==
    LET keys == BatKeys(whens_bat)
    IN  Let([lo_idx \in {IF IsNone(when_lo) THEN 0
             ELSE binary_search(keys, Val(when_lo), None, None, None,
                                "range")[2][IF lo_open THEN 2 ELSE 1]} |->
        Let([hi_idx \in {IF IsNone(when_hi) THEN Len(whens_bat)
             ELSE binary_search(keys, Val(when_hi), None, Some(lo_idx), None,
                                "range")[2][IF hi_open THEN 1 ELSE 2]} |->
        LET idxs == {whens_bat[i + 1][2] : i \in lo_idx..(hi_idx - 1)}
        IN  [found |-> idxs # {}, idxs |-> idxs, itvl |-> <<lo_idx, hi_idx>>]])])

\* EventSequence.event_indices, lines 250-262, as the set of the indices it
\* yields; types is the collection of the types handed in
event_indices(self, types) ==
    IF types = {} THEN 0..(Len(self.events) - 1)
    ELSE UNION {{self.types2evs[t][k] : k \in 1..Len(self.types2evs[t])} :
                   t \in types \cap Types}

\* lines 455-456 and 495-496: the restriction of idxs to the types
restrict_types(self, idxs, types) ==
    IF ~IsNone(types) /\ Cardinality(idxs) > 0
    THEN idxs \cap event_indices(self, Val(types))
    ELSE idxs

\* EventSequence.events_within, lines 423-457
events_within(self, when_lo, when_hi, lo_open, hi_open, types) ==
    LET idxs_lo == find_whens(self.los, when_lo, when_hi, lo_open, hi_open).idxs
        idxs    == IF ~IsNone(self.his)
                   THEN idxs_lo \cap find_whens(Val(self.his), when_lo, when_hi,
                                                lo_open, hi_open).idxs
                   ELSE idxs_lo
    IN  restrict_types(self, idxs, types)

\* events_overlapping with the low bound of the query tested against the
\* lows of the events, not their highs.
events_overlappingLowsOnly(self, when_lo, when_hi, lo_open, hi_open, types) ==
    LET idxs    == find_whens(self.los, None, when_hi, FALSE, hi_open).idxs
        idxs_hi == find_whens(self.los, when_lo, None, lo_open, FALSE).idxs
    IN  restrict_types(self, idxs \cap idxs_hi, types)

\* EventSequence.events_overlapping, lines 459-497
events_overlapping(self, when_lo, when_hi, lo_open, hi_open, types) ==
    LET idxs    == find_whens(self.los, None, when_hi, FALSE, hi_open).idxs
        bat     == IF ~IsNone(self.his) THEN Val(self.his) ELSE self.los
        idxs_hi == find_whens(bat, when_lo, None, lo_open, FALSE).idxs
    IN  restrict_types(self, idxs \cap idxs_hi, types)

\* EventSequence.events_after, lines 415-417
events_after(self, when_lo, strict, types) ==
    events_within(self, when_lo, None, strict, FALSE, types)

\* min(idxs), line 411
MinOf(idxs) == CHOOSE i \in idxs : \A j \in idxs : i <= j

\* first taking the greatest of the indices found.
firstTakesLast(self, type, after_when, strict) ==
    LET types == IF ~IsNone(type) THEN Some({Val(type)}) ELSE None
    IN  Let([idxs \in {events_after(self, after_when, strict, types)} |->
        LET found == Cardinality(idxs) > 0
            idx   == IF found THEN Some(CHOOSE i \in idxs : \A j \in idxs : j <= i)
                     ELSE None
            ev    == IF ~IsNone(idx) THEN Some(self.events[Val(idx) + 1])
                     ELSE None
        IN  [found |-> found, idx |-> idx, ev |-> ev]])

\* EventSequence.first, lines 405-413: (found, idx, ev); after_when is its
\* parameter after
first_event(self, type, after_when, strict) ==
    LET types == IF ~IsNone(type) THEN Some({Val(type)}) ELSE None
    IN  Let([idxs \in {events_after(self, after_when, strict, types)} |->
        LET found == Cardinality(idxs) > 0
            idx   == IF found THEN Some(MinOf(idxs))
                     ELSE None
            ev    == IF ~IsNone(idx) THEN Some(self.events[Val(idx) + 1])
                     ELSE None
        IN  [found |-> found, idx |-> idx, ev |-> ev]])

(***************************************************************************)
(* Range queries on a constructed EventSequence.  The bounds of a query    *)
(* reach one below and one above the whens, and lo_open and hi_open are    *)
(* read only with their bound, so they keep their default False without    *)
(* it.  The types of a query are None, or a collection of no type, of     *)
(* type 1 or of all the types.                                             *)
(***************************************************************************)
QueryWhens == (-1)..(MaxWhen + 1)

QueryTypes == Option({{}, {1}, Types})

\* the open flag that goes with a bound
OpenFlags(bound) == IF IsNone(bound) THEN {FALSE} ELSE BOOLEAN

\* a constructed EventSequence, its iterable consumed
InitSequence ==
    /\ IdleRest
    /\ ev_in = <<>>
    /\ \E events \in PlainInputs : es = EventSequenceInit(events)
    /\ ev_op = "none"
    /\ ev_args = <<>>
    /\ ev_out = <<>>
    /\ dicts = <<>>

\* a call es.events_within(when_lo, when_hi, lo_open, hi_open, types)
EventsWithin ==
    /\ ev_op = "none"
    /\ \E when_lo \in Option(QueryWhens), when_hi \in Option(QueryWhens),
          types \in QueryTypes :
       \E lo_open \in OpenFlags(when_lo), hi_open \in OpenFlags(when_hi) :
          /\ ev_args' = [when_lo |-> when_lo, when_hi |-> when_hi,
                         lo_open |-> lo_open, hi_open |-> hi_open,
                         types |-> types]
          /\ ev_out' = [idxs |-> events_within(es, when_lo, when_hi, lo_open,
                                               hi_open, types)]
    /\ ev_op' = "events_within"
    /\ UNCHANGED <<search_vars, interval_vars, dicts, ev_in, es>>

NextWithin == EventsWithin

SpecWithin == InitSequence /\ [][NextWithin]_vars

\* a call es.events_overlapping(when_lo, when_hi, lo_open, hi_open, types)
EventsOverlapping ==
    /\ ev_op = "none"
    /\ \E when_lo \in Option(QueryWhens), when_hi \in Option(QueryWhens),
          types \in QueryTypes :
       \E lo_open \in OpenFlags(when_lo), hi_open \in OpenFlags(when_hi) :
          /\ ev_args' = [when_lo |-> when_lo, when_hi |-> when_hi,
                         lo_open |-> lo_open, hi_open |-> hi_open,
                         types |-> types]
          /\ ev_out' = [idxs |-> events_overlapping(es, when_lo, when_hi,
                                                    lo_open, hi_open, types)]
    /\ ev_op' = "events_overlapping"
    /\ UNCHANGED <<search_vars, interval_vars, dicts, ev_in, es>>

NextOverlapping == EventsOverlapping

SpecOverlapping == InitSequence /\ [][NextOverlapping]_vars

\* a call es.first(type, after, strict)
First ==
    /\ ev_op = "none"
    /\ \E type \in Option(Types), after_when \in Option(QueryWhens),
          strict \in BOOLEAN :
          /\ ev_args' = [type |-> type, after |-> after_when,
                         strict |-> strict]
          /\ ev_out' = first_event(es, type, after_when, strict)
    /\ ev_op' = "first"
    /\ UNCHANGED <<search_vars, interval_vars, dicts, ev_in, es>>

NextFirst == First

SpecFirst == InitSequence /\ [][NextFirst]_vars

\* the low bounds of the events of a bucket of _types2evs:
\* key=lambda i, x: self._los[x][0], line 596
BucketKeys(self, ev_idxs) ==
    [i \in 1..Len(ev_idxs) |-> self.los[ev_idxs[i] + 1][1]]

\* EventSequence.before, lines 590-613: the loop over the types from the
\* k-th on, min_t being the running lower bound; the value returned
RECURSIVE before_chain(_, _, _, _, _)
before_chain(self, types, k, min_t, strict) ==
    IF k > Len(types) THEN TRUE
    ELSE LET ev_idxs == self.types2evs[types[k]]
             lo == binary_search(BucketKeys(self, ev_idxs), min_t, None, None,
                                 None, "lo")[2]
         IN  IF ev_idxs = <<>> THEN FALSE
             ELSE IF ~(lo < Len(ev_idxs)) THEN FALSE
             ELSE LET t == self.los[ev_idxs[lo + 1] + 1][1]
                      r == binary_search(BatKeys(self.los), t, None, None,
                                         None, "hi")
                  IN  IF ~strict THEN before_chain(self, types, k + 1, t, strict)
                      ELSE IF r[2] < Len(self.los)
                      THEN before_chain(self, types, k + 1,
                                        self.los[r[2] + 1][1], strict)
                      ELSE IF r[1]
                      THEN before_chain(self, types, k + 1,
                                        self.los[Len(self.los)][1], strict)
                      ELSE FALSE

\* seq_before comparing the first events of both types: t2_idxs[0] in place
\* of t2_idxs[-1].
seq_beforeFirstOfBoth(self, types, strict) ==
    LET is_strict == IF IsNone(strict) THEN FALSE ELSE Val(strict)
    IN  IF Len(types) = 2
        THEN LET t1_idxs == self.types2evs[types[1]]
                 t2_idxs == self.types2evs[types[2]]
             IN  IF t1_idxs # <<>> /\ t2_idxs # <<>>
                 THEN LET w1 == self.los[t1_idxs[1] + 1][1]
                          w2 == self.los[t2_idxs[1] + 1][1]
                      IN  [raised |-> FALSE,
                           value  |-> IF is_strict THEN w1 < w2 ELSE w1 <= w2]
                 ELSE [raised |-> FALSE, value |-> FALSE]
        ELSE IF self.los = <<>> THEN [raised |-> TRUE, value |-> FALSE]
        ELSE [raised |-> FALSE,
              value  |-> before_chain(self, types, 1, self.los[1][1], is_strict)]

(***************************************************************************)
(* EventSequence.before, lines 568-613.  types is (type1, type2, *types);  *)
(* strict is None when the caller does not pass it, and is then the        *)
(* default False of line 568.  self._los[0] at line 589 raises IndexError  *)
(* for a sequence without events.                                          *)
(***************************************************************************)
seq_before(self, types, strict) ==
    LET is_strict == IF IsNone(strict) THEN FALSE ELSE Val(strict)
    IN  IF Len(types) = 2
        THEN LET t1_idxs == self.types2evs[types[1]]
                 t2_idxs == self.types2evs[types[2]]
             IN  IF t1_idxs # <<>> /\ t2_idxs # <<>>
                 THEN LET w1 == self.los[t1_idxs[1] + 1][1]
                          w2 == self.los[t2_idxs[Len(t2_idxs)] + 1][1]
                      IN  [raised |-> FALSE,
                           value  |-> IF is_strict THEN w1 < w2 ELSE w1 <= w2]
                 ELSE [raised |-> FALSE, value |-> FALSE]
        ELSE IF self.los = <<>> THEN [raised |-> TRUE, value |-> FALSE]
        ELSE [raised |-> FALSE,
              value  |-> before_chain(self, types, 1, self.los[1][1], is_strict)]

(***************************************************************************)
(* Ordering queries on a constructed EventSequence: before with two to     *)
(* MaxChain types, with strict passed or left out.                         *)
(***************************************************************************)
TypeChains == UNION {[1..n -> Types] : n \in 2..MaxChain}

\* a call es.before(*types) or es.before(*types, strict=strict)
Before ==
    /\ ev_op = "none"
    /\ \E types \in TypeChains, strict \in Option(BOOLEAN) :
          /\ ev_args' = [types |-> types, strict |-> strict]
          /\ ev_out' = seq_before(es, types, strict)
    /\ ev_op' = "before"
    /\ UNCHANGED <<search_vars, interval_vars, dicts, ev_in, es>>

NextBefore == Before

SpecBefore == InitSequence /\ [][NextBefore]_vars

\* gen_txs without line 538: an interval of positive length yields its
\* start only.
RECURSIVE gen_txsNoStop(_, _)
gen_txsNoStop(self, event_idxs) ==
    IF event_idxs = <<>> THEN <<>>
    ELSE LET idx  == Head(event_idxs)
             when == self.events[idx + 1].when
         IN  <<<<WhenLo(when), 1, idx>>>> \o gen_txsNoStop(self, Tail(event_idxs))

(***************************************************************************)
(* gen_txs, lines 526-541: the transitions (when, 1 for a start or 0 for   *)
(* a stop, event) of the events at the given indices.  An event is named   *)
(* by its index in _events.                                                *)
(***************************************************************************)
RECURSIVE gen_txs(_, _)
gen_txs(self, event_idxs) ==
    IF event_idxs = <<>> THEN <<>>
    ELSE LET idx  == Head(event_idxs)
             when == self.events[idx + 1].when
             txs  == IF IsInterval(when) /\ when.lo # when.hi
                     THEN <<<<when.lo, 1, idx>>, <<when.hi, 0, idx>>>>
                     ELSE <<<<WhenLo(when), 1, idx>>>>
         IN  txs \o gen_txs(self, Tail(event_idxs))

\* txs_sort_key, lines 542-543
txs_sort_key(t) == <<t[1], -t[2]>>

\* sorted(..., key=txs_sort_key), lines 551-552: a stable sort
RECURSIVE sorted_txs(_)
sorted_txs(txs) ==
    IF txs = <<>> THEN <<>>
    ELSE LET n    == Len(txs)
             x    == txs[n]
             done == sorted_txs(SubSeq(txs, 1, n - 1))
             p    == Cardinality({j \in 1..(n - 1) :
                         ~TupleLt(txs_sort_key(x), txs_sort_key(done[j]))})
         IN  SubSeq(done, 1, p) \o <<x>> \o SubSeq(done, p + 1, n - 1)

\* lines 549-552: the sorted transitions of each type, one after the other
RECURSIVE type_txs(_, _)
type_txs(self, types) ==
    IF types = <<>> THEN <<>>
    ELSE sorted_txs(gen_txs(self, self.types2evs[Head(types)]))
            \o type_txs(self, Tail(types))

\* sorted(self._types2evs.keys()), line 547: the types that have events
RECURSIVE sorted_types(_, _)
sorted_types(self, t) ==
    IF t > MaxType THEN <<>>
    ELSE (IF self.types2evs[t] # <<>> THEN <<t>> ELSE <<>>)
            \o sorted_types(self, t + 1)

\* group_txs without the groupby of lines 553-554: every transition is
\* yielded as a tuple of its own.
RECURSIVE group_txsUngrouped(_, _)
group_txsUngrouped(self, txs) ==
    IF txs = <<>> THEN <<>>
    ELSE LET t == txs[1]
             w == self.events[t[3] + 1].when
             point == ~IsInterval(w) \/ w.lo = w.hi
         IN  <<[when   |-> t[1],
                starts |-> IF ~point /\ t[2] # 0 THEN <<t[3]>> ELSE <<>>,
                stops  |-> IF ~point /\ t[2] = 0 THEN <<t[3]>> ELSE <<>>,
                points |-> IF point THEN <<t[3]>> ELSE <<>>]>>
                \o group_txsUngrouped(self, Tail(txs))

\* lines 553-566: the groups of consecutive transitions of one when, each
\* as (when, starts, stops, points)
RECURSIVE group_txs(_, _)
group_txs(self, txs) ==
    IF txs = <<>> THEN <<>>
    ELSE LET when  == txs[1][1]
             n     == Cardinality({k \in 1..Len(txs) :
                          \A j \in 1..k : txs[j][1] = when})
             grp   == SubSeq(txs, 1, n)
             IsPoint(t) == LET w == self.events[t[3] + 1].when
                           IN  ~IsInterval(w) \/ w.lo = w.hi
             Idx(s) == [k \in 1..Len(s) |-> s[k][3]]
         IN  <<[when   |-> when,
                starts |-> Idx(SelectSeq(grp, LAMBDA t : ~IsPoint(t) /\ t[2] # 0)),
                stops  |-> Idx(SelectSeq(grp, LAMBDA t : ~IsPoint(t) /\ t[2] = 0)),
                points |-> Idx(SelectSeq(grp, IsPoint))]>>
                \o group_txs(self, SubSeq(txs, n + 1, Len(txs)))

(***************************************************************************)
(* EventSequence.transitions, lines 499-566.  heapq.merge of the sorted    *)
(* per-type lists is stable across the lists, so it yields the stable sort *)
(* of their concatenation.  The result is the list of what the generator   *)
(* yields.                                                                 *)
(***************************************************************************)
transitions(self, types) ==
    LET types1 == IF types = <<>> THEN sorted_types(self, 1) ELSE types
    IN  group_txs(self, sorted_txs(type_txs(self, types1)))

\* the type arguments of a transitions call: none, one or two types
TransitionTypes == UNION {[1..n -> Types] : n \in 0..2}

\* a call list(es.transitions(*types))
Transitions ==
    /\ ev_op = "none"
    /\ \E types \in TransitionTypes :
          /\ ev_args' = [types |-> types]
          /\ ev_out' = [groups |-> transitions(es, types)]
    /\ ev_op' = "transitions"
    /\ UNCHANGED <<search_vars, interval_vars, dicts, ev_in, es>>

NextTransitions == Transitions

SpecTransitions == InitSequence /\ [][NextTransitions]_vars

(***************************************************************************)
(* mk_union_aggregator, lines 707-741.  An accumulated event has an        *)
(* Interval as its when and the list of the values it stands for as its    *)
(* value.                                                                  *)
(***************************************************************************)
\* ensure_length, lines 719-726
ensure_length(event, length) ==
    LET when  == event.when
        when1 == IF IsInterval(when)
                 THEN (IF when.length < length
                       THEN IntervalInit(when.lo, None, FALSE, FALSE,
                                         Some(length)).itvl
                       ELSE when)
                 ELSE IntervalInit(when.at, None, FALSE, FALSE,
                                   Some(length)).itvl
    IN  Event(when1, event.type, <<event.value>>)

\* union_aggregator merging whenever the intervals are at most max_gap
\* apart or the new one has the type of the last.
union_aggregatorSameType(events, event, min_len, max_gap) ==
    LET this_event == ensure_length(event, min_len)
        last_event == events[Len(events)]
    IN  IF Len(events) = 0 THEN <<this_event>>
        ELSE IF \/ this_event.when.lo - last_event.when.hi <= max_gap
                \/ this_event.type = last_event.type
        THEN [events EXCEPT ![Len(events)] =
                 Event(Interval(last_event.when.lo, this_event.when.hi,
                                FALSE, FALSE),
                       last_event.type,
                       Append(last_event.value, this_event.value[1]))]
        ELSE Append(events, this_event)

\* union_aggregator, lines 727-740: the list returned.  In a fold over
\* sorted events last_event.when.lo <= this_event.when.hi, so the Interval
\* of lines 735-736 is built without error.
union_aggregator(events, event, min_len, max_gap) ==
    LET this_event == ensure_length(event, min_len)
        last_event == events[Len(events)]
    IN  IF Len(events) = 0 THEN <<this_event>>
        ELSE IF this_event.when.lo - last_event.when.hi <= max_gap
        THEN [events EXCEPT ![Len(events)] =
                 Event(Interval(last_event.when.lo, this_event.when.hi,
                                FALSE, FALSE),
                       last_event.type,
                       Append(last_event.value, this_event.value[1]))]
        ELSE Append(events, this_event)

(***************************************************************************)
(* A fold of a union aggregator over sorted events, as functools.reduce    *)
(* or the loop of aggregate_events (lines 697-700) runs it.  The events    *)
(* are at plain whens or at closed intervals with bounds in 0..MaxPoint,   *)
(* have the first or the last type, and carry their rank as their value,   *)
(* which the aggregator does not read.                                     *)
(***************************************************************************)
FoldWhens ==
    {Interval(b[1], b[2], FALSE, FALSE) :
        b \in {x \in (0..MaxPoint) \X (0..MaxPoint) : x[1] <= x[2]}}

FoldPoints == {[at |-> n] : n \in 0..MaxPoint}

FoldTypes == {1, MaxType}

\* the sorted lists of up to MaxFold events at the given whens
FoldLists(whens) ==
    LET events == {Event(w, t, 0) : w \in whens, t \in FoldTypes}
        lists  == UNION {[1..n -> events] : n \in 0..MaxFold}
    IN  {[k \in 1..Len(l) |-> Event(l[k].when, l[k].type, k - 1)] :
            l \in {m \in lists : sorted_events(m) = m}}

FoldInputs == FoldLists(FoldWhens) \cup FoldLists(FoldPoints)

\* ua = mk_union_aggregator(min_len, max_gap), the events to fold and the
\* empty aggregation
InitFold ==
    /\ IdleRest
    /\ es = NoSequence
    /\ ev_in \in FoldInputs
    /\ ev_op = "none"
    /\ ev_args \in [min_len : 0..MaxGap, max_gap : 0..MaxGap]
    /\ ev_out = [events |-> <<>>, before |-> <<>>, event |-> None]
    /\ dicts = <<>>

\* aggregated = ua(aggregated, event) for the next event of the fold
UnionAggregator ==
    /\ ev_in # <<>>
    /\ ev_out' = [events |-> union_aggregator(ev_out.events, Head(ev_in),
                                              ev_args.min_len,
                                              ev_args.max_gap),
                  before |-> ev_out.events,
                  event  |-> Some(Head(ev_in))]
    /\ ev_in' = Tail(ev_in)
    /\ ev_op' = "union_aggregator"
    /\ UNCHANGED <<search_vars, interval_vars, dicts, es, ev_args>>

NextFold == UnionAggregator

SpecFold == InitFold /\ [][NextFold]_vars

(***************************************************************************)
(* Modification by derivation, lines 615-704.  An EventSequence object is  *)
(* the record of EventSequenceInit with its id and with a reference to     *)
(* its dictionary of facts, which lives in dicts: the reference r stands   *)
(* for dicts[r].  A dictionary maps each key to None (absent) or to its    *)
(* value.  An iterable of facts is a sequence of parts, each a list of     *)
(* (key, value) pairs or the items view of a dictionary, as                *)
(* itertools.chain joins them.                                             *)
(***************************************************************************)
FactKeys == {"j", "k"}

EmptyDict == [k \in FactKeys |-> None]

\* dict(facts), line 93: the pairs are stored in order, a later one
\* overwriting an earlier one with its key; the items of a view are read
\* from the dictionary it views
RECURSIVE dict(_, _, _)
dict(d, facts, heap) ==
    IF facts = <<>> THEN d
    ELSE LET part == Head(facts)
         IN  IF "view" \in DOMAIN part
             THEN dict([k \in FactKeys |->
                           IF heap[part.view][k] # None
                           THEN heap[part.view][k] ELSE d[k]],
                       Tail(facts), heap)
             ELSE IF part.pairs = <<>> THEN dict(d, Tail(facts), heap)
             ELSE dict([d EXCEPT ![part.pairs[1][1]] = Some(part.pairs[1][2])],
                       <<[pairs |-> Tail(part.pairs)]>> \o Tail(facts), heap)

\* sorted(events, key=attrgetter('when', 'type')) compares the whens: an
\* Interval and a plain value do not compare (Interval.__lt__ reads
\* other.is_empty, interval.py lines 228-254), so the sort raises
Sortable(events) ==
    \A i, j \in 1..Len(events) :
        IsInterval(events[i].when) = IsInterval(events[j].when)

\* the constructor keeping the dictionary of the items view it is given
\* instead of making its own.
EventSequenceNewSharedFacts(events, facts, id, heap) ==
    LET shared == /\ facts # None
                  /\ Len(facts[1]) = 1
                  /\ "view" \in DOMAIN facts[1][1]
        ref    == IF shared THEN facts[1][1].view ELSE Len(heap) + 1
        new    == IF facts # None THEN dict(EmptyDict, facts[1], heap)
                  ELSE EmptyDict
        fields == EventSequenceInit(events)
    IN  IF ~Sortable(events)
        THEN [raised |-> TRUE, value |-> None, dicts |-> heap]
        ELSE [raised |-> FALSE,
              value  |-> [events    |-> fields.events,
                          los       |-> fields.los,
                          his       |-> fields.his,
                          types2evs |-> fields.types2evs,
                          id        |-> IF id # None THEN id[1] ELSE -ref,
                          facts     |-> ref],
              dicts  |-> IF shared THEN heap ELSE Append(heap, new)]

\* EventSequence(events, facts, id), lines 79-132: the new object and the
\* dictionaries after the call.  builtins.id(self) is a value that no other
\* object has: the negative of the reference to the facts of the object,
\* which no other object shares.
EventSequenceNew(events, facts, id, heap) ==
    LET ref    == Len(heap) + 1
        new    == IF facts # None THEN dict(EmptyDict, facts[1], heap)
                  ELSE EmptyDict
        fields == EventSequenceInit(events)
    IN  IF ~Sortable(events)
        THEN [raised |-> TRUE, value |-> None, dicts |-> heap]
        ELSE [raised |-> FALSE,
              value  |-> [events    |-> fields.events,
                          los       |-> fields.los,
                          his       |-> fields.his,
                          types2evs |-> fields.types2evs,
                          id        |-> IF id # None THEN id[1] ELSE -ref,
                          facts     |-> ref],
              dicts  |-> Append(heap, new)]

\* copy, lines 617-636; self.facts() (lines 224-228) is the items view of
\* the facts of self
copy(self, events, facts, id, heap) ==
    EventSequenceNew(IF events # None THEN events[1] ELSE self.events,
                     IF facts # None THEN facts
                     ELSE Some(<<[view |-> self.facts]>>),
                     IF id # None THEN id ELSE Some(self.id),
                     heap)

\* extend, lines 638-660
extend(self, events, facts, id, heap) ==
    EventSequenceNew(IF events # None THEN self.events \o events[1]
                     ELSE self.events,
                     IF facts # None
                     THEN Some(<<[view |-> self.facts]>> \o facts[1])
                     ELSE Some(<<[view |-> self.facts]>>),
                     IF id # None THEN id ELSE Some(self.id),
                     heap)

\* subsequence, lines 662-679
subsequence(self, ev_indices, facts, id, heap) ==
    copy(self,
         Some([k \in 1..Len(ev_indices) |->
                  self.events[ev_indices[k] + 1]]),
         facts, id, heap)

\* lines 697-700: the fold of a union aggregator over the events at the
\* indices ev_idxs
RECURSIVE aggregate(_, _, _, _)
aggregate(self, ev_idxs, aggregated, aggregator) ==
    IF ev_idxs = <<>> THEN aggregated
    ELSE aggregate(self, Tail(ev_idxs),
                   union_aggregator(aggregated, self.events[Head(ev_idxs) + 1],
                                    aggregator.min_len, aggregator.max_gap),
                   aggregator)

\* lines 695-701: the aggregations of the given types, one after another
RECURSIVE aggregate_types(_, _, _)
aggregate_types(self, types, aggregator) ==
    IF types = <<>> THEN <<>>
    ELSE aggregate(self, self.types2evs[Head(types)], <<>>, aggregator)
            \o aggregate_types(self, Tail(types), aggregator)

\* lines 702-703: the events of the types of the sequence that are not
\* among the given ones
RECURSIVE untouched_events(_, _, _)
untouched_events(self, keys, types) ==
    IF keys = <<>> THEN <<>>
    ELSE (IF \E k \in 1..Len(types) : types[k] = Head(keys) THEN <<>>
          ELSE [k \in 1..Len(self.types2evs[Head(keys)]) |->
                   self.events[self.types2evs[Head(keys)][k] + 1]])
            \o untouched_events(self, Tail(keys), types)

\* aggregate_events, lines 681-704, with a union aggregator.  The keys of
\* _types2evs are read in ascending order: the sort of the new sequence
\* never finds two events of different types equal, so their order in the
\* list handed to copy does not show.
aggregate_events(self, aggregator, types, heap) ==
    LET keys   == sorted_types(self, 1)
        types1 == IF types = None THEN keys ELSE types[1]
    IN  copy(self,
             Some(aggregate_types(self, types1, aggregator)
                     \o untouched_events(self, keys, types1)),
             None, None, heap)

\* __setitem__, lines 197-202, with a key that is not an integer: the
\* dictionaries after self[key] = val
setitem(self, fact, val, heap) ==
    [heap EXCEPT ![self.facts] = [@ EXCEPT ![fact] = Some(val)]]

(***************************************************************************)
(* From a sequence constructed with or without facts and an id, one        *)
(* sequence is derived, and then a fact is set on either.                  *)
(***************************************************************************)
\* the facts and id given to a derivation
DerivedFacts == {[facts |-> None, id |-> None],
                 [facts |-> Some(<<[pairs |-> <<<<"j", 1>>>>]>>),
                  id    |-> Some(1)]}

\* the events given to copy and extend: none, or one event of the last
\* type at a when of the sequence
DerivedEvents(self) ==
    {<<>>} \cup {<<Event(self.events[i].when, MaxType, 0)>> :
                    i \in 1..Len(self.events)}

DeriveOps == {"copy", "extend", "subsequence", "aggregate_events"}

\* es = EventSequence(events, facts, id), the events given in an order
\* that the sort keeps, without facts and id or with both
InitDerive ==
    /\ IdleRest
    /\ ev_in = <<>>
    /\ \E events \in {l \in PlainInputs : sorted_events(l) = l},
          given \in {[facts |-> None, id |-> None],
                     [facts |-> Some(<<[pairs |-> <<<<"k", 0>>>>]>>),
                      id    |-> Some(0)]} :
          LET new == EventSequenceNew(events, given.facts, given.id, <<>>)
          IN  /\ es = new.value
              /\ dicts = new.dicts
    /\ ev_op = "none"
    /\ ev_args = <<>>
    /\ ev_out = <<>>

\* the outcome of a derivation: the call raised or returned value
Derived(op, args, new) ==
    /\ ev_out' = [raised |-> new.raised, value |-> new.value]
    /\ dicts' = new.dicts
    /\ ev_op' = op
    /\ ev_args' = args
    /\ UNCHANGED <<search_vars, interval_vars, ev_in, es>>

\* es.copy(events, facts, id)
Copy ==
    /\ ev_op = "none"
    /\ \E events \in Option(DerivedEvents(es)), given \in DerivedFacts :
          Derived("copy", [events |-> events, given |-> given],
                  copy(es, events, given.facts, given.id, dicts))

\* es.extend(events, facts, id)
Extend ==
    /\ ev_op = "none"
    /\ \E events \in Option(DerivedEvents(es)), given \in DerivedFacts :
          Derived("extend", [events |-> events, given |-> given],
                  extend(es, events, given.facts, given.id, dicts))

\* es.subsequence(event_indices, facts, id), for the ascending lists of
\* indices into the events of es
Subsequence ==
    /\ ev_op = "none"
    /\ \E S \in SUBSET (0..(Len(es.events) - 1)), given \in DerivedFacts :
       \E ev_indices \in {SelectSeq([i \in 1..Len(es.events) |-> i - 1],
                                    LAMBDA i : i \in S)} :
          Derived("subsequence",
                  [event_indices |-> ev_indices, given |-> given],
                  subsequence(es, ev_indices, given.facts, given.id,
                              dicts))

\* es.aggregate_events(aggregator, types) with mk_union_aggregator() or
\* mk_union_aggregator(MaxGap, MaxGap)
AggregateEvents ==
    /\ ev_op = "none"
    /\ \E aggregator \in {[min_len |-> n, max_gap |-> n] : n \in {0, MaxGap}},
          types \in Option({<<1>>}) :
          Derived("aggregate_events",
                  [aggregator |-> aggregator, types |-> types],
                  aggregate_events(es, aggregator, types, dicts))

\* es[key] = val, after the derivation
SetItem ==
    /\ ev_op \in DeriveOps
    /\ ~ev_out.raised
    /\ \E fact \in FactKeys :
          /\ dicts' = setitem(es, fact, MaxValue + 1, dicts)
          /\ ev_args' = [key |-> fact]
    /\ ev_op' = "setitem"
    /\ UNCHANGED <<search_vars, interval_vars, ev_in, es, ev_out>>

\* derived[key] = val, on the sequence that the derivation returned
SetItemDerived ==
    /\ ev_op \in DeriveOps
    /\ ~ev_out.raised
    /\ \E fact \in FactKeys :
          /\ dicts' = setitem(ev_out.value, fact, MaxValue + 1, dicts)
          /\ ev_args' = [key |-> fact]
    /\ ev_op' = "setitem_derived"
    /\ UNCHANGED <<search_vars, interval_vars, ev_in, es, ev_out>>

NextDerive ==
    \/ Copy
    \/ Extend
    \/ Subsequence
    \/ AggregateEvents
    \/ SetItem
    \/ SetItemDerived

SpecDerive == InitDerive /\ [][NextDerive]_vars

(***************************************************************************)
(* The remaining queries, and every query on a sequence built from no      *)
(* events.                                                                 *)
(***************************************************************************)
\* has_type, lines 281-283: _types2evs has a key for each type that has
\* events
has_type(self, type) == self.types2evs[type] # <<>>

\* has_when, lines 299-302
has_when(self, when) == find_when(self, when).found

\* events_before, lines 419-421
events_before(self, when_hi, strict, types) ==
    events_within(self, None, when_hi, FALSE, strict, types)

\* span, lines 319-353: the Interval built or the error of its
\* constructor.  The bounds are integers, none is an infinity, so the
\* searches for the finite extrema (lines 334-337 and 344-351) are not run
\* whatever finite is.
span(self, finite) ==
    LET bat  == IF ~IsNone(self.his) THEN Val(self.his) ELSE self.los
        itvl == IF Len(self.events) = 0
                THEN IntervalInit(0, None, TRUE, FALSE, None)
                ELSE IntervalInit(self.los[1][1], Some(bat[Len(bat)][1]),
                                  FALSE, FALSE, None)
    IN  IF itvl.raised THEN [raised |-> TRUE, value |-> None]
        ELSE [raised |-> FALSE, value |-> itvl.itvl]

\* a call es.has_type(type)
HasType ==
    /\ ev_op = "none"
    /\ \E type \in Types :
          /\ ev_args' = [type |-> type]
          /\ ev_out' = [raised |-> FALSE, value |-> has_type(es, type)]
    /\ ev_op' = "has_type"
    /\ UNCHANGED <<search_vars, interval_vars, dicts, ev_in, es>>

\* a call es.has_when(when)
HasWhen ==
    /\ ev_op = "none"
    /\ \E when \in PointWhens \cup IntervalWhens :
          /\ ev_args' = [when |-> when]
          /\ ev_out' = [raised |-> FALSE, value |-> has_when(es, when)]
    /\ ev_op' = "has_when"
    /\ UNCHANGED <<search_vars, interval_vars, dicts, ev_in, es>>

\* a call es.events_after(when_lo, strict, types)
EventsAfter ==
    /\ ev_op = "none"
    /\ \E when_lo \in Option(QueryWhens), strict \in BOOLEAN,
          types \in QueryTypes :
          /\ ev_args' = [when_lo |-> when_lo, strict |-> strict,
                         types |-> types]
          /\ ev_out' = [idxs |-> events_after(es, when_lo, strict, types)]
    /\ ev_op' = "events_after"
    /\ UNCHANGED <<search_vars, interval_vars, dicts, ev_in, es>>

\* a call es.events_before(when_hi, strict, types)
EventsBefore ==
    /\ ev_op = "none"
    /\ \E when_hi \in Option(QueryWhens), strict \in BOOLEAN,
          types \in QueryTypes :
          /\ ev_args' = [when_hi |-> when_hi, strict |-> strict,
                         types |-> types]
          /\ ev_out' = [idxs |-> events_before(es, when_hi, strict, types)]
    /\ ev_op' = "events_before"
    /\ UNCHANGED <<search_vars, interval_vars, dicts, ev_in, es>>

\* a call es.span(finite)
Span ==
    /\ ev_op = "none"
    /\ \E finite \in BOOLEAN :
          /\ ev_args' = [finite |-> finite]
          /\ ev_out' = span(es, finite)
    /\ ev_op' = "span"
    /\ UNCHANGED <<search_vars, interval_vars, dicts, ev_in, es>>

\* es = EventSequence([])
InitEmpty ==
    /\ IdleRest
    /\ ev_in = <<>>
    /\ LET new == EventSequenceNew(<<>>, None, None, <<>>)
       IN  /\ es = new.value
           /\ dicts = new.dicts
    /\ ev_op = "none"
    /\ ev_args = <<>>
    /\ ev_out = <<>>

NextEmpty ==
    \/ HasType
    \/ HasWhen
    \/ HasEvent
    \/ First
    \/ EventsWithin
    \/ EventsAfter
    \/ EventsBefore
    \/ EventsOverlapping
    \/ Before
    \/ Transitions
    \/ Span
    \/ AggregateEvents

SpecEmpty == InitEmpty /\ [][NextEmpty]_vars

(***************************************************************************)
(* What the search is specified against: the window of a call, and the     *)
(* insertion points found by scanning it.  A window [lo, hi) whose clamped *)
(* hi is not above its clamped lo holds no index; its end is then lo.      *)
(***************************************************************************)
IsSorted(items) == \A i \in 1..(Len(items) - 1) : items[i] <= items[i + 1]

WinLo(c) == IF IsNone(c.lo) THEN 0 ELSE Max(Val(c.lo), 0)

WinHi(c) == IF IsNone(c.hi) THEN Len(c.items) ELSE Min(Val(c.hi), Len(c.items))

Window(c) == WinLo(c)..(WinHi(c) - 1)

WinEnd(c) == Max(WinLo(c), WinHi(c))

KeyAt(c, i) == c.items[i + 1]

LeastOr(S, dflt) == IF S = {} THEN dflt ELSE CHOOSE i \in S : \A j \in S : i <= j

LeftPoint(c, k) == LeastOr({i \in Window(c) : KeyAt(c, i) >= k}, WinEnd(c))

RightPoint(c, k) == LeastOr({i \in Window(c) : KeyAt(c, i) > k}, WinEnd(c))

HiKey(c) == IF IsNone(c.target_key_hi) THEN c.target_key ELSE Val(c.target_key_hi)

Returned == pc = "done"

Found == Val(result)[1]

Index == Val(result)[2]

C2_LeftInsertionPoint ==
    (Returned /\ call.target = "lo" /\ IsSorted(call.items))
    => Index = LeftPoint(call, call.target_key)

\* C2 witness: a Target.lo search with both bounds out of range has
\* returned the start of an equal run of two or more items that is not the
\* start of the array.
C2_Witness ==
    /\ Returned /\ call.target = "lo" /\ IsSorted(call.items)
    /\ ~IsNone(call.lo) /\ Val(call.lo) < 0
    /\ ~IsNone(call.hi) /\ Val(call.hi) > Len(call.items)
    /\ Index > 0
    /\ Index + 1 < Len(call.items)
    /\ KeyAt(call, Index) = call.target_key
    /\ KeyAt(call, Index + 1) = call.target_key

\* C3: a Target.hi search of a sorted array returns the smallest index of
\* the window whose key is strictly greater than the target, the window end
\* if there is none.
C3_RightInsertionPoint ==
    (Returned /\ call.target = "hi" /\ IsSorted(call.items))
    => Index = RightPoint(call, call.target_key)

\* C3 witness: a Target.hi search has returned one past an equal run of two
\* items, before the end of the window.
C3_Witness ==
    /\ Returned /\ call.target = "hi" /\ IsSorted(call.items)
    /\ Index >= 2
    /\ Index < WinHi(call)
    /\ KeyAt(call, Index - 1) = call.target_key
    /\ KeyAt(call, Index - 2) = call.target_key
    /\ (Index - 2) \in Window(call)

\* C4: for targets any, lo and hi on a sorted array, found is true iff some
\* index inside the window holds a key equal to the target; for Target.any
\* a found index holds an equal key and a not-found index is the sorted
\* insertion point inside the window; on an empty array or empty window the
\* result is not-found with index lo.
C4_FoundFlag ==
    (Returned /\ call.target \in {"any", "lo", "hi"} /\ IsSorted(call.items))
    => /\ Found = (\E i \in Window(call) : KeyAt(call, i) = call.target_key)
       /\ (call.target = "any" /\ Found)
            => (Index \in Window(call) /\ KeyAt(call, Index) = call.target_key)
       /\ (call.target = "any" /\ ~Found)
            => (/\ Index = LeftPoint(call, call.target_key)
                /\ Index = RightPoint(call, call.target_key))
       /\ Window(call) = {} => (~Found /\ Index = WinLo(call))

\* C4 witness: a search has returned not-found although the array holds an
\* item equal to the target outside the non-empty window.
C4_Witness ==
    /\ Returned /\ call.target \in {"any", "lo", "hi"} /\ IsSorted(call.items)
    /\ Window(call) # {}
    /\ ~Found
    /\ \E i \in 1..Len(call.items) : call.items[i] = call.target_key


(***************************************************************************)
(* Properties of the interval algebra.                                     *)
(***************************************************************************)
\* C5: Allen inverse law: for every pair of intervals a and b, point
\* intervals included, a.allen_relation(b) equals
\* b.allen_relation(a).inverse().
C5_AllenInverseLaw ==
    ivl_op = "allen_relation"
    => ivl_out.relation = inverse(allen_relation(ivl_args[2], ivl_args[1]))

\* the placement of a relative to b that the AllenRelation table names by a
\* relation of value <= 0
Placement(r, a, b) ==
    CASE r = before         -> a.hi < b.lo
      [] r = abut_before    -> \/ (a.lo < a.hi /\ a.hi = b.lo /\ b.lo < b.hi)
                               \/ (a.lo = a.hi /\ a.hi = b.lo /\ b.lo < b.hi)
      [] r = overlap_before -> a.lo < b.lo /\ b.lo < a.hi /\ a.hi < b.hi
      [] r = outside_end    -> a.lo < b.lo /\ a.hi = b.hi
      [] r = outside        -> a.lo < b.lo /\ b.hi < a.hi
      [] r = inside_begin   -> a.lo = b.lo /\ a.hi < b.hi
      [] r = equal          -> a.lo = b.lo /\ a.hi = b.hi
      [] OTHER              -> FALSE

\* the placement named by any relation: a relation of value > 0 names the
\* placement of its inverse with a and b exchanged; abut_after also names a
\* point a at the high bound of b (row 12 of the table)
NamedPlacement(r, a, b) ==
    IF r <= 0 THEN Placement(r, a, b)
    ELSE \/ Placement(inverse(r), b, a)
         \/ (r = abut_after /\ b.lo < b.hi /\ b.hi = a.lo /\ a.lo = a.hi)

\* C6: allen_relation returns a member of AllenRelation, of value in -6..6,
\* and the relation returned is the one the table names for the relative
\* order of the endpoints (the placement the relation names holds of a, b).
C6_AllenTable ==
    ivl_op = "allen_relation"
    => /\ ivl_out.relation \in AllenValues
       /\ NamedPlacement(ivl_out.relation, ivl_args[1], ivl_args[2])

\* the bound hi that the constructor arguments resolve to
ResolvedHi(args) ==
    IF ~IsNone(args.hi) THEN Val(args.hi)
    ELSE IF ~IsNone(args.length) THEN args.lo + Val(args.length)
    ELSE args.lo

\* C7: Interval construction fails exactly when the resolved bounds have
\* lo > hi (hi the given hi, or lo + length when only length is given, or lo
\* when neither is), and no interval with lo > hi is ever produced, by the
\* constructor or by union.
C7_ConstructFails ==
    /\ ivl_op = "init"
       => /\ ivl_out.raised = (ivl_args.lo > ResolvedHi(ivl_args))
          /\ ~ivl_out.raised
               => (/\ ivl_out.itvl.lo = ivl_args.lo
                   /\ ivl_out.itvl.hi = ResolvedHi(ivl_args)
                   /\ ivl_out.itvl.lo <= ivl_out.itvl.hi)
    /\ ivl_op = "union"
       => \A i \in 1..Len(ivl_out.intervals) :
             ivl_out.intervals[i].lo <= ivl_out.intervals[i].hi

\* C7 witness: a construction from lo and a negative length, without hi,
\* has failed.
C7_Witness ==
    /\ ivl_op = "init"
    /\ IsNone(ivl_args.hi)
    /\ ~IsNone(ivl_args.length) /\ Val(ivl_args.length) < 0
    /\ ivl_out.raised

\* the lexicographic order of (lo, lo_open, hi, not hi_open)
KeyLess(a, b) ==
    \/ a.lo < b.lo
    \/ a.lo = b.lo /\ ~a.lopen /\ b.lopen
    \/ a.lo = b.lo /\ a.lopen = b.lopen /\ a.hi < b.hi
    \/ a.lo = b.lo /\ a.lopen = b.lopen /\ a.hi = b.hi /\ a.hopen /\ ~b.hopen

KeySame(a, b) ==
    a.lo = b.lo /\ a.lopen = b.lopen /\ a.hi = b.hi /\ a.hopen = b.hopen

\* C8: interval comparison is a total order with empties collapsed: exactly
\* one of a < b, a == b, a > b holds; a <= b iff (a < b or a == b); a >= b
\* iff (a > b or a == b); two empty intervals are equal whatever their point;
\* an empty interval is less than every non-empty one; non-empty intervals
\* compare lexicographically by (lo, lo_open, hi, not hi_open).
C8_TotalOrder ==
    ivl_op = "compare"
    => LET a == ivl_args[1]
           b == ivl_args[2]
           c == ivl_out
           Empty(i) == i.lo = i.hi /\ i.lopen /\ i.hopen
       IN  /\ B2I(c.lt) + B2I(c.eq) + B2I(c.gt) = 1
           /\ c.le = (c.lt \/ c.eq)
           /\ c.ge = (c.gt \/ c.eq)
           /\ (Empty(a) /\ Empty(b)) => c.eq
           /\ (Empty(a) /\ ~Empty(b)) => (c.lt /\ ~c.eq /\ ~c.gt)
           /\ (~Empty(a) /\ Empty(b)) => (c.gt /\ ~c.eq /\ ~c.lt)
           /\ (~Empty(a) /\ ~Empty(b))
                => (/\ c.lt = KeyLess(a, b)
                    /\ c.eq = KeySame(a, b)
                    /\ c.gt = KeyLess(b, a))

\* C8 witness: two empty intervals at different points have compared equal,
\* the first having the greater point.
C8_Witness ==
    /\ ivl_op = "compare"
    /\ is_empty(ivl_args[1]) /\ is_empty(ivl_args[2])
    /\ ivl_args[1].lo > ivl_args[2].lo
    /\ ivl_out.eq /\ ivl_out.le /\ ivl_out.ge /\ ~ivl_out.lt /\ ~ivl_out.gt

\* the orders in which k operands can be handed to union
OperandOrders(k) == {p \in [1..k -> 1..k] : \A i, j \in 1..k : p[i] = p[j] => i = j}

Permuted(itvls, p) == [i \in 1..Len(itvls) |-> itvls[p[i]]]

\* two union results are the same: both a single Interval or both compound,
\* with equal (==) members in the same order
SameUnion(u1, u2) ==
    /\ u1.compound = u2.compound
    /\ Len(u1.intervals) = Len(u2.intervals)
    /\ \A i \in 1..Len(u1.intervals) : IntervalEq(u1.intervals[i], u2.intervals[i])

\* x lies wholly before y: apart, or touching at a bound open on both sides
Separated(x, y) == x.hi < y.lo \/ (x.hi = y.lo /\ x.hopen /\ y.lopen)

\* C9: the result of union does not depend on the order of its operands
\* (k >= 2 intervals with any mix of open and closed bounds), and no two
\* members of a returned CompoundInterval overlap or touch at a bound that
\* is closed on either side.
C9_UnionOrderIndependent ==
    (ivl_op = "union" /\ Len(ivl_args) >= 2)
    => /\ \A p \in OperandOrders(Len(ivl_args)) :
             SameUnion(union(Permuted(ivl_args, p)), ivl_out)
       /\ ivl_out.compound
            => \A i, j \in 1..Len(ivl_out.intervals) :
                  i < j => \/ Separated(ivl_out.intervals[i], ivl_out.intervals[j])
                           \/ Separated(ivl_out.intervals[j], ivl_out.intervals[i])

\* the fields of an interval that a union result is described by
Shape(i) == <<i.lo, i.hi, i.lopen, i.hopen>>

Shapes(u) == [i \in 1..Len(u.intervals) |-> Shape(u.intervals[i])]

\* what C10 says of the union of non-empty a and b, in either call order
UnionOfTwo(a, b, out) ==
    /\ a.hi = b.lo
         => IF a.hopen /\ b.lopen
            THEN out.compound /\ Shapes(out) = <<Shape(a), Shape(b)>>
            ELSE ~out.compound
                 /\ Shapes(out) = << <<a.lo, b.hi, a.lopen, b.hopen>> >>
    /\ a.hi < b.lo
         => (out.compound /\ Shapes(out) = <<Shape(a), Shape(b)>>)
    /\ (a.hi > b.lo /\ b.hi > a.lo)
         => LET lo == Min(a.lo, b.lo)
                hi == Max(a.hi, b.hi)
            IN  /\ ~out.compound
                /\ Shapes(out) =
                     << <<lo, hi,
                          ~((a.lo = lo /\ ~a.lopen) \/ (b.lo = lo /\ ~b.lopen)),
                          ~((a.hi = hi /\ ~a.hopen) \/ (b.hi = hi /\ ~b.hopen))>> >>

\* C10: for two non-empty intervals a, b with a.hi == b.lo, union returns
\* both unmerged exactly when a is open at hi and b is open at lo, otherwise
\* the single interval from a.lo to b.hi with a's lo-openness and b's
\* hi-openness; for disjoint non-touching intervals both in ascending order;
\* for overlapping ones a single interval whose bounds are closed whenever
\* either operand is closed at that extreme.
C10_UnionOfTwo ==
    (ivl_op = "union" /\ Len(ivl_args) = 2
       /\ ~is_empty(ivl_args[1]) /\ ~is_empty(ivl_args[2]))
    => /\ UnionOfTwo(ivl_args[1], ivl_args[2], ivl_out)
       /\ UnionOfTwo(ivl_args[2], ivl_args[1], ivl_out)

\* C10 witness: the second operand ends, open, where the first begins,
\* closed, and the union is the single merged interval.
C10_Witness ==
    /\ ivl_op = "union" /\ Len(ivl_args) = 2
    /\ ivl_args[2].lo < ivl_args[2].hi /\ ivl_args[1].lo < ivl_args[1].hi
    /\ ivl_args[2].hi = ivl_args[1].lo
    /\ ivl_args[2].hopen /\ ~ivl_args[1].lopen
    /\ ~ivl_out.compound
    /\ Shapes(ivl_out) = << <<ivl_args[2].lo, ivl_args[1].hi,
                              ivl_args[2].lopen, ivl_args[1].hopen>> >>

\* a and b have no point in common by their bounds: apart, or touching at a
\* bound that one of them leaves out
ApartOrOpenTouch(a, b) ==
    \/ a.hi < b.lo
    \/ (a.hi = b.lo /\ a.lo < b.hi /\ (a.hopen \/ b.lopen))

\* a and b share exactly one bound, which both contain
ClosedTouch(a, b) ==
    a.hi = b.lo /\ ~a.hopen /\ ~b.lopen

\* C11: for all intervals a and b, a.intersection(b) is a subset of a and
\* of b, equals b.intersection(a), is empty whenever a and b are disjoint
\* or touch at a bound open on either side, and is a point only when the
\* point is a bound that both a and b contain.
C11_Intersection ==
    (ivl_op = "intersection" /\ Len(ivl_args) = 2)
    => LET a == ivl_args[1]
           b == ivl_args[2]
           x == ivl_out.itvl
       IN  /\ issubset(x, a)
           /\ issubset(x, b)
           /\ IntervalEq(x, intersection(b, <<a>>))
           /\ (ApartOrOpenTouch(a, b) \/ ApartOrOpenTouch(b, a)) => is_empty(x)
           /\ is_point(x) =>
                 /\ x.lo \in {a.lo, a.hi} => ~(IF x.lo = a.lo THEN a.lopen ELSE a.hopen)
                 /\ x.lo \in {b.lo, b.hi} => ~(IF x.lo = b.lo THEN b.lopen ELSE b.hopen)
                 /\ a.lo <= x.lo /\ x.lo <= a.hi /\ b.lo <= x.lo /\ x.lo <= b.hi
           /\ (ClosedTouch(a, b) /\ a.lo < b.hi) => (is_point(x) /\ x.lo = a.hi)
           /\ ivl_out.intersects = ~is_empty(x)

\* two intervals of positive length that touch at a bound both contain have
\* the point as their intersection
C11_Witness ==
    /\ ivl_op = "intersection"
    /\ Len(ivl_args) = 2
    /\ ivl_args[1].lo < ivl_args[1].hi
    /\ ivl_args[2].lo < ivl_args[2].hi
    /\ ClosedTouch(ivl_args[1], ivl_args[2])
    /\ is_point(ivl_out.itvl)

(***************************************************************************)
(* Properties of EventSequence.                                            *)
(***************************************************************************)
\* the number of places of a sequence that hold exactly the event e
Count(events, e) == Cardinality({i \in 1..Len(events) : events[i] = e})

\* e1 stands before e2 in the input
InputBefore(input, e1, e2) ==
    \E i, j \in 1..Len(input) : i < j /\ input[i] = e1 /\ input[j] = e2

\* C12: iterating an EventSequence built from any iterable of events yields
\* exactly the input events (the same multiset), in an order non-decreasing
\* in (when, type), the events equal in (when, type) in their input order.
C12_SortedEvents ==
    ev_op = "events"
    => LET out == ev_out.events
           n   == Len(out)
       IN  /\ n = Len(ev_in)
           /\ \A i \in 1..n : Count(out, out[i]) = Count(ev_in, out[i])
           /\ \A i \in 1..(n - 1) :
                 \/ WhenLo(out[i].when) < WhenLo(out[i + 1].when)
                 \/ /\ WhenLo(out[i].when) = WhenLo(out[i + 1].when)
                    /\ WhenHi(out[i].when) < WhenHi(out[i + 1].when)
                 \/ /\ WhenLo(out[i].when) = WhenLo(out[i + 1].when)
                    /\ WhenHi(out[i].when) = WhenHi(out[i + 1].when)
                    /\ out[i].type <= out[i + 1].type
           /\ \A i, j \in 1..n :
                 (/\ i < j
                  /\ out[i].when = out[j].when
                  /\ out[i].type = out[j].type
                  /\ out[i].value # out[j].value)
                 => InputBefore(ev_in, out[i], out[j])

\* an input of two events whose second event sorts before its first has
\* been iterated
C12_Witness ==
    /\ ev_op = "events"
    /\ Len(ev_in) = 2
    /\ SortKeyLt(ev_in[2], ev_in[1])
    /\ ev_out.events = <<ev_in[2], ev_in[1]>>
\* C13: for any EventSequence, of points or of intervals, and any event e,
\* has_event(e) returns true iff the sequence contains an event equal to e
\* in when, type and value, and returns false otherwise without raising.
C13_HasEvent ==
    ev_op = "has_event"
    => /\ ~ev_out.raised
       /\ ev_out.value = (\E i \in 1..Len(es.events) :
                             es.events[i] = ev_args.event)
\* a bound of an event satisfies the bounds of a query: >= when_lo, or >
\* it when lo_open, and <= when_hi, or < it when hi_open; None is no bound
WithinBounds(b, a) ==
    /\ IsNone(a.when_lo)
          \/ (IF a.lo_open THEN Val(a.when_lo) < b ELSE Val(a.when_lo) <= b)
    /\ IsNone(a.when_hi)
          \/ (IF a.hi_open THEN b < Val(a.when_hi) ELSE b <= Val(a.when_hi))

\* the event is of the types of a query; types that are None or empty are
\* not given (event.py, lines 258-259) and admit every event
OfTypes(e, types) == IsNone(types) \/ Val(types) = {} \/ e.type \in Val(types)

\* the indices of the events that satisfy P
IndicesWhere(P(_)) == {i \in 0..(Len(es.events) - 1) : P(es.events[i + 1])}

LowsOf(type) ==
    {WhenLo(es.events[i].when) : i \in {j \in 1..Len(es.events) :
                                           es.events[j].type = type}}

\* the earliest t1 event is before the latest t2 event, strictly or not
PairBefore(t1, t2, strict) ==
    /\ LowsOf(t1) # {}
    /\ LowsOf(t2) # {}
    /\ \E w1 \in LowsOf(t1), w2 \in LowsOf(t2) :
          /\ \A w \in LowsOf(t1) : w1 <= w
          /\ \A w \in LowsOf(t2) : w <= w2
          /\ IF strict THEN w1 < w2 ELSE w1 <= w2

\* there are events of the types from the k-th on, in this order, with
\* ascending whens that start at or after last (after it when strict)
RECURSIVE ChainFrom(_, _, _, _)
ChainFrom(types, k, last, strict) ==
    IF k > Len(types) THEN TRUE
    ELSE \E w \in LowsOf(types[k]) :
            /\ IF strict THEN last < w ELSE last <= w
            /\ ChainFrom(types, k + 1, w, strict)

C18_BeforeDefaultStrict ==
    (ev_op = "before" /\ IsNone(ev_args.strict) /\ es.events # <<>>)
    => IF Len(ev_args.types) = 2
       THEN ev_out.value = PairBefore(ev_args.types[1], ev_args.types[2], TRUE)
       ELSE ev_out.value => ChainFrom(ev_args.types, 1, -1, TRUE)

\* C19: for a sequence of point-when events, before with three or more
\* types t1..tk returns true iff there are events e1..ek of these types
\* with when(e1) <= ... <= when(ek) when strict is false, or
\* when(e1) < ... < when(ek) when strict is true; it returns false as soon
\* as some type has no qualifying occurrence.
C19_BeforeChain ==
    (/\ ev_op = "before"
     /\ Len(ev_args.types) >= 3
     /\ ~IsNone(ev_args.strict)
     /\ \A i \in 1..Len(es.events) : ~IsInterval(es.events[i].when))
    => /\ ~ev_out.raised
       /\ ev_out.value = ChainFrom(ev_args.types, 1, -1, Val(ev_args.strict))
\* the places <<group, position>> of the lists of a kind ("starts", "stops"
\* or "points") that hold the event of index idx
PlacesOf(groups, kind, idx) ==
    {p \in (1..Len(groups)) \X (1..MaxEvents) :
        LET list == IF kind = "starts" THEN groups[p[1]].starts
                    ELSE IF kind = "stops" THEN groups[p[1]].stops
                    ELSE groups[p[1]].points
        IN  p[2] <= Len(list) /\ list[p[2]] = idx}

\* C20: transition coverage: over the complete output of transitions()
\* with no type arguments, every event whose when is an interval with
\* lo != hi appears exactly once among all starts lists, in the group whose
\* when is its lo, and exactly once among all stops lists, in the group
\* whose when is its hi; every point event or degenerate interval event
\* appears exactly once among all points lists and never among starts or
\* stops.
C20_TransitionCoverage ==
    (ev_op = "transitions" /\ ev_args.types = <<>>)
    => \A i \in 1..Len(es.events) :
          LET when   == es.events[i].when
              groups == ev_out.groups
              starts == PlacesOf(groups, "starts", i - 1)
              stops  == PlacesOf(groups, "stops", i - 1)
              points == PlacesOf(groups, "points", i - 1)
          IN  IF IsInterval(when) /\ when.lo # when.hi
              THEN /\ Cardinality(starts) = 1
                   /\ \A p \in starts : groups[p[1]].when = when.lo
                   /\ Cardinality(stops) = 1
                   /\ \A p \in stops : groups[p[1]].when = when.hi
                   /\ points = {}
              ELSE /\ Cardinality(points) = 1
                   /\ \A p \in points : groups[p[1]].when = WhenLo(when)
                   /\ starts = {}
                   /\ stops = {}

\* the transitions of an interval of positive length and of a degenerate
\* interval at its high bound: one group holds the stop and the point
C20_Witness ==
    /\ ev_op = "transitions"
    /\ ev_args.types = <<>>
    /\ \E g \in 1..Len(ev_out.groups) :
          /\ Len(ev_out.groups[g].stops) = 1
          /\ Len(ev_out.groups[g].points) = 1
\* the indices of the events in the lists of a yielded tuple
GroupEvents(g) ==
    {g.starts[k] : k \in 1..Len(g.starts)}
        \cup {g.stops[k] : k \in 1..Len(g.stops)}
        \cup {g.points[k] : k \in 1..Len(g.points)}

\* C21: transitions(*types) yields its (when, starts, stops, points) tuples
\* in strictly ascending when order, so each transition time is yielded
\* once; every yielded tuple has at least one event in starts, stops or
\* points; only events of the selected types appear (of any type when no
\* type is given); and a sequence without events, or types without events,
\* yield nothing.
C21_TransitionsOrder ==
    ev_op = "transitions"
    => LET groups   == ev_out.groups
           types    == ev_args.types
           selected == {types[k] : k \in 1..Len(types)}
       IN  /\ \A g \in 1..(Len(groups) - 1) :
                 groups[g].when < groups[g + 1].when
           /\ \A g \in 1..Len(groups) :
                 /\ GroupEvents(groups[g]) # {}
                 /\ \A i \in GroupEvents(groups[g]) :
                       /\ i \in 0..(Len(es.events) - 1)
                       /\ types # <<>> => es.events[i + 1].type \in selected
           /\ es.events = <<>> => groups = <<>>
           /\ (types # <<>> /\ \A t \in selected : es.types2evs[t] = <<>>)
                 => groups = <<>>

\* transitions of two types, with one tuple that holds events of both types
\* and a later tuple
C21_Witness ==
    /\ ev_op = "transitions"
    /\ Len(ev_args.types) = 2
    /\ ev_args.types[1] # ev_args.types[2]
    /\ Len(ev_out.groups) >= 2
    /\ Cardinality({es.events[i + 1].type :
                       i \in GroupEvents(ev_out.groups[1])}) = 2
\* the event that ensure_length is to make of an event: its when an
\* interval from its low bound, of its own length or of min_len if that is
\* more, and its value in a one-element list
Lengthened(event, min_len) ==
    LET lo  == WhenLo(event.when)
        len == Max(WhenHi(event.when) - lo, min_len)
    IN  Event(Interval(lo, lo + len, FALSE, FALSE), event.type,
              <<event.value>>)

C29_MergeCovers ==
    (/\ ev_op = "union_aggregator"
     /\ Len(ev_out.before) > 0
     /\ Len(ev_out.events) = Len(ev_out.before))
    => LET last   == ev_out.before[Len(ev_out.before)]
           merged == ev_out.events[Len(ev_out.events)]
           new    == Lengthened(Val(ev_out.event), ev_args.min_len)
       IN  /\ merged.when.lo = last.when.lo
           /\ merged.when.hi = Max(last.when.hi, new.when.hi)
           /\ merged.when.hi >= last.when.hi
\* the facts of an EventSequence object, read from the dictionaries
FactsOf(self, heap) == heap[self.facts]

C24_EmptyQueries ==
    (es.events = <<>> /\ ev_op # "none") =>
        CASE ev_op \in {"has_type", "has_when", "has_event", "before"} ->
                 ~ev_out.raised /\ ev_out.value = FALSE
          [] ev_op = "first" ->
                 ~ev_out.found /\ ev_out.idx = None /\ ev_out.ev = None
          [] ev_op \in {"events_within", "events_after", "events_before",
                        "events_overlapping"} ->
                 ev_out.idxs = {}
          [] ev_op = "transitions" -> ev_out.groups = <<>>
          [] ev_op = "span" -> ~ev_out.raised /\ is_empty(ev_out.value)
          [] ev_op = "aggregate_events" ->
                 ~ev_out.raised /\ ev_out.value.events = <<>>
          [] OTHER -> TRUE
\* the rows of the table that match the first n targets: the row by row
\* scan
MatchingRows(tbl, tgts, n) ==
    {i \in 0..(Len(tbl) - 1) : \A c \in 1..n : tbl[i + 1][c] = tgts[c]}

\* C25: multi_search over columns given as sorted or tagged arrays, with
\* one target per column, returns the set of row indices whose value equals
\* the target in every column, as a row by row scan finds them, found is
\* true exactly when that set is not empty, and the range of a column is
\* None exactly when the rows matching the columns before it are none.
C25_MultiSearchScan ==
    ev_op = "multi_search" =>
        /\ ev_out.idxs
               = MatchingRows(ev_in, ev_args.tgts, Len(ev_args.tgts))
        /\ ev_out.found <=> ev_out.idxs # {}
        /\ \A c \in 1..Len(ev_args.tgts) :
              ev_out.itvls[c] = None
                  <=> (c > 1 /\ MatchingRows(ev_in, ev_args.tgts, c - 1) = {})

\* two columns, the second a tagged array in another order than the rows,
\* were searched and one row of several matches
C25_Witness ==
    /\ ev_op = "multi_search"
    /\ Len(ev_args.cols) = 2
    /\ ev_args.cols[2].tagged
    /\ \E i \in 1..Len(ev_in) : ev_args.cols[2].bat[i][2] # i - 1
    /\ Cardinality(ev_out.idxs) = 1
    /\ Len(ev_in) > 1

\* the first column has no match and the second was not searched
C25_WitnessShortCircuit ==
    /\ ev_op = "multi_search"
    /\ Len(ev_args.cols) = 2
    /\ ~ev_out.found
    /\ ev_out.itvls[2] = None
\* the first pass of a range search of a sorted array with ordered keys is
\* in its loop or has left it
InLoPass ==
    /\ call.target = "range"
    /\ pass = 1
    /\ pc \in {"loop", "returned"}
    /\ IsSorted(call.items)
    /\ call.target_key <= HiKey(call)

\* the hints enclose the right insertion point of hi_key, inside the window
HintsEnclose ==
    /\ WinLo(call) <= frame.hi_le
    /\ frame.hi_le <= RightPoint(call, HiKey(call))
    /\ RightPoint(call, HiKey(call)) <= frame.hi_gt
    /\ frame.hi_gt <= WinHi(call)

\* the range search returned, for its right end, what a Target.hi search of
\* the whole window returns
SecondAsWhole ==
    (Returned /\ call.target = "range" /\ IsSorted(call.items)
       /\ call.target_key <= HiKey(call))
    => Index[2] = binary_search(call.items, HiKey(call), None, call.lo,
                                call.hi, "hi")[2]

\* C26 as stated: in a Target.lo pass over a sorted array with
\* lo_key <= hi_key, at every iteration and on return,
\* window_lo <= hi_le <= R <= hi_gt <= window_hi with R the right insertion
\* point of hi_key in the window, and so the second search of a range
\* query, inside [hi_le, hi_gt), returns the index that a Target.hi search
\* of the whole window returns.
C26_HintsAnyWindow ==
    /\ InLoPass => HintsEnclose
    /\ SecondAsWhole

\* C26 amended: the hints enclose the right insertion point when the window
\* is not inverted (its clamped lo is not above its clamped hi); the second
\* search returns the index of a Target.hi search of the whole window for
\* every window.
C26_Hints ==
    /\ (InLoPass /\ WinLo(call) <= WinHi(call)) => HintsEnclose
    /\ SecondAsWhole

\* the first pass has ended with both hints moved off the ends of the
\* window
C26_Witness ==
    /\ InLoPass
    /\ pc = "returned"
    /\ WinLo(call) < frame.hi_le
    /\ frame.hi_gt < WinHi(call)

\* a range search went through both passes in a window that is not the
\* whole array and returned a slice with an item in it
C26_WitnessSecond ==
    /\ Returned /\ call.target = "range" /\ IsSorted(call.items)
    /\ call.target_key <= HiKey(call)
    /\ ~IsNone(call.hi)
    /\ WinHi(call) < Len(call.items)
    /\ Index[1] < Index[2]
\* C27: the loop of _binary_search terminates for every array, sorted or
\* not, and every target, key and window: an iteration returns (a
\* Target.any hit) or moves lo up or hi down, never both and never the
\* other way, so that hi - lo decreases; lo and hi stay inside the clamped
\* window with lo <= hi; and every search returns.
C27_LoopProgress ==
    /\ [][/\ (pc = "loop" /\ frame' # frame) =>
                 /\ \/ frame'.hit /\ frame.target = "any"
                          /\ frame'.lo = frame.lo /\ frame'.hi = frame.hi
                    \/ ~frame'.hit /\ frame'.lo > frame.lo
                          /\ frame'.hi = frame.hi
                    \/ ~frame'.hit /\ frame'.hi < frame.hi
                          /\ frame'.lo = frame.lo
                 /\ ~frame'.hit =>
                        frame'.hi - frame'.lo < frame.hi - frame.lo
                 /\ frame'.lo <= frame'.hi
          /\ (pass' = 1 /\ pc' \in {"loop", "returned"}) =>
                 /\ WinLo(call) <= frame'.lo
                 /\ frame'.hi <= WinHi(call)]_vars
    /\ <>(pc = "done")

\* the search of an array that is not sorted has left its loop after
\* moving both lo and hi
C27_Witness ==
    /\ pc = "returned"
    /\ pass = 1
    /\ ~IsSorted(call.items)
    /\ WinLo(call) < frame.lo
    /\ frame.hi < WinHi(call)
\* C28: for a sequence constructed from whens of one domain (plain values,
\* or Intervals of any kind, empty ones among them) the lows index holds
\* the pair (low bound, i) of event i at position i and is non-decreasing
\* in the low bound, and the highs index, when it is kept, is a permutation
\* of the pairs (high bound, i) that is non-decreasing in the high bound.
C28_IndexesSorted ==
    ev_op \in {"init", "events"} =>
        LET n == Len(es.events)
        IN  /\ Len(es.los) = n
            /\ \A i \in 1..n :
                  es.los[i] = <<WhenLo(es.events[i].when), i - 1>>
            /\ \A i \in 1..(n - 1) : es.los[i][1] <= es.los[i + 1][1]
            /\ ~IsNone(es.his) =>
                  LET his == Val(es.his)
                  IN  /\ Len(his) = n
                      /\ {his[i] : i \in 1..n}
                            = {<<WhenHi(es.events[i].when), i - 1>> :
                                  i \in 1..n}
                      /\ \A i \in 1..(n - 1) : his[i][1] <= his[i + 1][1]
\* C30: allen_relation is reflexive on equal: a.allen_relation(b) is equal
\* whenever a.lo = b.lo and a.hi = b.hi, also for point intervals, and so
\* a.allen_relation(a) is equal for every interval a.
C30_AllenEqual ==
    (/\ ivl_op = "allen_relation"
     /\ ivl_args[1].lo = ivl_args[2].lo
     /\ ivl_args[1].hi = ivl_args[2].hi)
    => ivl_out.relation = equal

=============================================================================
